---- MODULE Spec2Model ----
(***************************************************************************)
(* filekeeper: the backup/prune orchestration engine.                      *)
(*                                                                         *)
(* One behaviour of the model is one call of backup.RunBackup: the age     *)
(* cutoff, the backup phase (per-file replication with optional gzip       *)
(* compression, or archive mode), the prune phase, the Result accounting,  *)
(* the failure-rate breaker and the polled cancellation.  The environment  *)
(* decides which filesystem and transport operations fail, when the        *)
(* context is cancelled and when the wall clock advances.                  *)
(***************************************************************************)
EXTENDS Integers, Sequences, FiniteSets, TLC

\* ------------------------------------------------------------------ bounds
\* number of regular files under the target root (walked in lexical order)
MaxFiles == 2
\* number of local backup destinations returned by GetBackupPaths
MaxDests == 2
\* number of remote destinations returned by GetRemoteBackups
MaxRemotes == 1
\* how many times the wall clock advances during one run
MaxTicks == 1
\* how many operations the environment lets fail during one run
MaxFailures == 1
\* cfg.PruneAfterHours, in whole hours
PruneAfterHours == 1
\* largest value of a count or byte total of a Result handed to Merge
MaxCount == 1

Files == 1..MaxFiles
\* entry 0 of a walk is the target root directory itself
RootEntry == 0
\* modification times of the files, in hours
MTimes == {0, 1}
\* the wall clock when RunBackup is called
StartTime == PruneAfterHours + 1
\* configured values of error_threshold_percent (0 disables the breaker)
Thresholds == {0, 50}
Modes == {"copy", "gzip", "archive"}

VARIABLES
    cfg,            \* config.Config and RunOptions of this run (immutable)
    mtime,          \* modification time of every file of the target tree
    now,            \* wall clock (time.Now)
    ctxDone,        \* the context has been cancelled
    source,         \* files that exist under the target root
    dirs,           \* backup roots that exist as directories
    destFiles,      \* artifacts under the backup roots: [path, content]
    archives,       \* archive files under the backup roots: [root, content, files]
    remoteFiles,    \* what the remote destinations have received: <<source path, remote>>
    pc,             \* position of RunBackup
    idx,            \* next entry of the running filepath.Walk
    pruneThreshold, \* cutoff computed at the start of RunBackup
    result,         \* backup.Result accumulated by RunBackup
    pruneResult,    \* pruner.Result accumulated by PruneFiles
    pending,        \* local-copy goroutines of the current file still running
    successChan,    \* destinations of the current file that succeeded, in completion order
    errChan,        \* destinations of the current file that failed, in completion order
    ridx,           \* next remote destination / next archive destination
    filesToArchive, \* files collected by runArchiveBackup
    archivePaths,   \* roots whose archive was created, in creation order
    retErr,         \* error returned by RunBackup ("running" until it returns)
    calledCancelled,\* history: the context was already cancelled when RunBackup was called
    copyFailed,     \* history: some local copy attempt of this run has failed
    failures        \* history: operations the environment has let fail so far

vars == <<cfg, mtime, calledCancelled, copyFailed, failures, now, ctxDone, source, dirs, destFiles, archives,
          remoteFiles, pc, idx, pruneThreshold, result, pruneResult, pending,
          successChan, errChan, ridx, filesToArchive, archivePaths, retErr>>

\* the filesystem and the remote side: everything a run can create, modify or delete
effects == <<source, dirs, destFiles, archives, remoteFiles>>

\* ------------------------------------------------------------------ paths
SrcPath(i) == <<"target", i>>
BackupRoot(d) == <<"backup", d>>

ExtensionFor_NoSuffix(alg) == ""

\* compression.ExtensionFor
ExtensionFor(alg) == IF alg = "gzip" THEN ".gz" ELSE ""

\* cfg.GetCompressionConfig: per-file compression is on in mode "gzip" only
CompressionEnabled(c) == c.mode = "gzip"

GetDestinationPath_NoSuffix(d, f, c) == <<"backup", d, f, "">>

\* compression.GetDestinationPath applied to filepath.Join(backupPath, relPath)
GetDestinationPath(d, f, c) ==
    IF CompressionEnabled(c) THEN <<"backup", d, f, ExtensionFor("gzip")>>
    ELSE <<"backup", d, f, "">>

\* compression.CompressFile: the file it writes for filepath.Join(backupPath, relPath)
CompressFileDest(d, f, c) ==
    IF CompressionEnabled(c) THEN <<"backup", d, f, ExtensionFor("gzip")>>
    ELSE <<"backup", d, f, "">>

\* cfg.GetBackupPaths / cfg.GetRemoteBackups: the resolved destination lists
GetBackupPaths(c) == [k \in 1..c.numDests |-> k]
GetRemoteBackups(c) == [k \in 1..c.numRemotes |-> k]

\* ------------------------------------------------------------------ Result
\* backup.NewResult
NewResult ==
    [Succeeded |-> 0, Failed |-> 0, Skipped |-> 0, BackedUp |-> 0,
     Pruned |-> 0, RemoteCopied |-> 0, Errors |-> <<>>]

\* pruner.NewResult
NewPruneResult == [Pruned |-> 0, Failed |-> 0, Skipped |-> 0, Errors |-> <<>>]

AddError_ListOnly(r, path, op) == [r EXCEPT !.Errors = Append(@, <<path, op>>)]

AddError_CountOnly(r, path, op) == [r EXCEPT !.Failed = @ + 1]

\* (*Result).AddError, the same in both packages
AddError(r, path, op) ==
    [r EXCEPT !.Errors = Append(@, <<path, op>>), !.Failed = @ + 1]

\* backup (*Result).AddSuccess (byte totals are not modelled)
AddSuccess(r) == [r EXCEPT !.Succeeded = @ + 1]

\* a percentage as the exact fraction num/den
Rate(num, den) == <<num, den>>
RateGT(rate, t) == rate[1] > t * rate[2]
RateEQ(rate, t) == rate[1] = t * rate[2]

FailureRate_OfAllFiles(r) == Rate(r.Failed * 100, MaxFiles)

\* backup (*Result).FailureRate: failed / (succeeded + failed) * 100, 0 when empty
FailureRate(r) ==
    LET total == r.Succeeded + r.Failed
    IN IF total = 0 THEN Rate(0, 1) ELSE Rate(r.Failed * 100, total)

PrunerFailureRate_Cumulative(r) ==
    LET total == result.Succeeded + result.Failed + r.Pruned + r.Failed
    IN IF total = 0 THEN Rate(0, 1) ELSE Rate((result.Failed + r.Failed) * 100, total)

\* pruner (*Result).FailureRate: failed / (pruned + failed) * 100, 0 when empty
PrunerFailureRate(r) ==
    LET total == r.Pruned + r.Failed
    IN IF total = 0 THEN Rate(0, 1) ELSE Rate(r.Failed * 100, total)

BackupThresholdExceeded_AtLeast(r, t) ==
    t > 0 /\ (RateGT(FailureRate(r), t) \/ RateEQ(FailureRate(r), t))

\* the breaker test of the backup walk
BackupThresholdExceeded(r, t) == t > 0 /\ RateGT(FailureRate(r), t)

PruneThresholdExceeded_Never(r, t) == FALSE

\* the breaker test of the prune walk
PruneThresholdExceeded(r, t) == t > 0 /\ RateGT(PrunerFailureRate(r), t)

\* info.ModTime().Before(pruneThreshold)
Before(t, threshold) == t < threshold

Polled_Never == FALSE

\* select { case <-ctx.Done(): ... default: }
Polled == ctxDone

\* ------------------------------------------------------------------ Init
Configs ==
    [enableBackup : BOOLEAN, mode : Modes, dryRun : BOOLEAN,
     threshold : Thresholds, numDests : 1..MaxDests, numRemotes : 0..MaxRemotes]

\* the state in which RunBackup is called with one of the configurations cs
InitWith(cs) ==
    /\ cfg \in cs
    /\ mtime \in [Files -> MTimes]
    /\ now = StartTime
    /\ ctxDone \in BOOLEAN
    /\ calledCancelled = ctxDone
    /\ copyFailed = FALSE
    /\ failures = 0
    /\ source = Files
    /\ dirs \in {{}, 1..cfg.numDests}
    /\ destFiles = {}
    /\ archives = {}
    /\ remoteFiles = {}
    /\ pc = "start"
    /\ idx = 0
    /\ pruneThreshold = 0
    /\ result = NewResult
    /\ pruneResult = NewPruneResult
    /\ pending = {}
    /\ successChan = <<>>
    /\ errChan = <<>>
    /\ ridx = 1
    /\ filesToArchive = {}
    /\ archivePaths = <<>>
    /\ retErr = "running"

Init == InitWith(Configs)

\* ------------------------------------------------------------------ helpers
replication == <<pending, successChan, errChan, ridx>>
archiving == <<filesToArchive, archivePaths>>

\* the environment lets one more operation fail / lets the operation succeed
Fails == failures < MaxFailures /\ failures' = failures + 1
Succeeds == failures' = failures

\* RunBackup returns (result, err)
Return(err) == pc' = "done" /\ retErr' = err

\* os.Create + write: the artifact at path p is replaced by one with content c
WriteFile(fs, p, c) == {a \in fs : a.path # p} \cup {[path |-> p, content |-> c]}

WalkDone_AfterFirst(i) == i >= 1

\* the walk callback has returned nil for entry i: next entry, or Walk returns nil
WalkDone(i) == i >= MaxFiles

\* ------------------------------------------------------------------ RunBackup
Start_SkipsBadRoot ==
    /\ pc = "start"
    /\ pruneThreshold' = now - PruneAfterHours
    /\ IF cfg.enableBackup
       THEN \E created \in SUBSET (1..cfg.numDests) :
              /\ dirs' = dirs \cup created
              /\ pc' = IF cfg.mode = "archive" THEN "acollect" ELSE "walk"
              /\ idx' = RootEntry
              /\ retErr' = retErr
       ELSE /\ pc' = "preprune"
            /\ UNCHANGED <<dirs, idx, retErr>>
    /\ UNCHANGED <<cfg, mtime, calledCancelled, copyFailed, failures, now, ctxDone, source, destFiles, archives,
                   remoteFiles, result, pruneResult, replication, archiving>>

\* RunBackup up to the start of the backup phase: the cutoff is computed once,
\* then every backup root is created with os.MkdirAll (k is the first root
\* whose creation fails; MkdirAll of an existing directory succeeds)
Start ==
    /\ pc = "start"
    /\ pruneThreshold' = now - PruneAfterHours
    /\ IF cfg.enableBackup
       THEN \E k \in 1..(cfg.numDests + 1) :
              /\ k <= cfg.numDests => k \notin dirs
              /\ dirs' = dirs \cup 1..(k - 1)
              /\ IF k <= cfg.numDests
                 THEN Return("mkdir") /\ idx' = idx
                 ELSE /\ pc' = IF cfg.mode = "archive" THEN "acollect" ELSE "walk"
                      /\ idx' = RootEntry
                      /\ retErr' = retErr
       ELSE /\ pc' = "preprune"
            /\ UNCHANGED <<dirs, idx, retErr>>
    /\ UNCHANGED <<cfg, mtime, calledCancelled, copyFailed, failures, now, ctxDone, source, destFiles, archives,
                   remoteFiles, result, pruneResult, replication, archiving>>

FileSucceeded_NoBackedUp(r) == AddSuccess(r)

\* RunBackup after backupFileToAllDestinations returned nil:
\* result.AddSuccess(info.Size()); result.BackedUp++
FileSucceeded(r) == [AddSuccess(r) EXCEPT !.BackedUp = @ + 1]

ContinueWalk_SkipPrune(r) ==
    /\ result' = r
    /\ IF WalkDone(idx)
       THEN pc' = "done" /\ retErr' = "nil" /\ idx' = idx
       ELSE pc' = "walk" /\ idx' = idx + 1 /\ retErr' = retErr

\* the file-by-file walk has finished entry idx with the Result r
ContinueWalk(r) ==
    /\ result' = r
    /\ retErr' = retErr
    /\ IF WalkDone(idx)
       THEN pc' = "preprune" /\ idx' = idx
       ELSE pc' = "walk" /\ idx' = idx + 1

\* one callback of the file-by-file filepath.Walk of RunBackup
BackupWalk ==
    /\ pc = "walk"
    /\ IF Polled
       THEN Return("canceled") /\ Succeeds /\ UNCHANGED <<result, idx, replication>>
       ELSE \/ \* the entry cannot be accessed: recorded, the walk goes on
               \* (nothing below an unreadable root is visited)
               /\ Fails
               /\ result' = AddError(result, SrcPath(idx), "access")
               /\ retErr' = retErr
               /\ IF idx = RootEntry \/ WalkDone(idx)
                  THEN pc' = "preprune" /\ idx' = idx
                  ELSE pc' = "walk" /\ idx' = idx + 1
               /\ UNCHANGED replication
            \/ /\ idx = RootEntry
               /\ Succeeds
               /\ ContinueWalk(result)
               /\ UNCHANGED replication
            \/ /\ idx # RootEntry
               /\ ~Before(mtime[idx], pruneThreshold)
               /\ Succeeds
               /\ ContinueWalk([result EXCEPT !.Skipped = @ + 1])
               /\ UNCHANGED replication
            \/ \* backupFileToAllDestinations in dry-run mode: logs only
               /\ idx # RootEntry
               /\ Before(mtime[idx], pruneThreshold)
               /\ cfg.dryRun
               /\ Succeeds
               /\ ContinueWalk(FileSucceeded(result))
               /\ UNCHANGED replication
            \/ \* backupFileToAllDestinations starts one goroutine per backup path
               /\ idx # RootEntry
               /\ Before(mtime[idx], pruneThreshold)
               /\ ~cfg.dryRun
               /\ Succeeds
               /\ pc' = "local"
               /\ pending' = 1..cfg.numDests
               /\ successChan' = <<>>
               /\ errChan' = <<>>
               /\ UNCHANGED <<result, idx, ridx, retErr>>
    /\ UNCHANGED <<cfg, mtime, calledCancelled, copyFailed, now, ctxDone, effects,
                   pruneThreshold, pruneResult, archiving>>

ChanCap_Unbuffered(c) == 0

\* make(chan error, len(backupPaths)) and make(chan backupResult, len(backupPaths))
ChanCap(c) == Len(GetBackupPaths(c))

\* a send on a buffered channel nobody receives from yet proceeds only while
\* the buffer has room; otherwise the sending goroutine blocks
CanSend(ch) == Len(ch) < ChanCap(cfg)

LocalCopy_CountsInWorker(d) ==
    /\ pc = "local"
    /\ d \in pending
    /\ pending' = pending \ {d}
    /\ \/ /\ Succeeds
          /\ destFiles' = WriteFile(destFiles, CompressFileDest(d, idx, cfg), "full")
          /\ successChan' = Append(successChan, d)
          /\ result' = [result EXCEPT !.RemoteCopied = @ + 1]
          /\ UNCHANGED <<errChan, copyFailed>>
       \/ /\ Fails
          /\ destFiles' = destFiles
          /\ errChan' = Append(errChan, d)
          /\ copyFailed' = TRUE
          /\ result' = result
          /\ successChan' = successChan
    /\ UNCHANGED <<cfg, mtime, calledCancelled, now, ctxDone, source, dirs, archives,
                   remoteFiles, pc, idx, pruneThreshold, pruneResult, ridx,
                   archiving, retErr>>

\* one local-copy goroutine of backupFileToAllDestinations runs to its end:
\* compression.CompressFile succeeds, fails before the destination file is
\* created, or fails after os.Create and leaves a partial file
LocalCopy(d) ==
    /\ pc = "local"
    /\ d \in pending
    /\ pending' = pending \ {d}
    /\ \/ /\ Succeeds
          /\ CanSend(successChan)
          /\ destFiles' = WriteFile(destFiles, CompressFileDest(d, idx, cfg), "full")
          /\ successChan' = Append(successChan, d)
          /\ UNCHANGED <<errChan, copyFailed>>
       \/ /\ Fails
          /\ CanSend(errChan)
          /\ destFiles' = destFiles
          /\ errChan' = Append(errChan, d)
          /\ copyFailed' = TRUE
          /\ successChan' = successChan
       \/ /\ Fails
          /\ CanSend(errChan)
          /\ destFiles' = WriteFile(destFiles, CompressFileDest(d, idx, cfg), "partial")
          /\ errChan' = Append(errChan, d)
          /\ copyFailed' = TRUE
          /\ successChan' = successChan
    /\ UNCHANGED <<cfg, mtime, calledCancelled, now, ctxDone, source, dirs, archives,
                   remoteFiles, pc, idx, pruneThreshold, result, pruneResult, ridx,
                   archiving, retErr>>

\* backupFileToAllDestinations returned nil for entry idx
FileBackedUp(r) ==
    /\ ContinueWalk(FileSucceeded(r))
    /\ pending' = {}
    /\ successChan' = <<>>
    /\ errChan' = <<>>
    /\ ridx' = 1

AllLocalBackupsFailed_Any == Len(errChan) > 0

\* len(successfulResults) == 0 && len(backupPaths) > 0
AllLocalBackupsFailed == Len(successChan) = 0 /\ cfg.numDests > 0

WaitGroupDone_FirstOutcome == Len(successChan) + Len(errChan) > 0

\* wg.Wait returns: every local-copy goroutine of the file has called wg.Done
WaitGroupDone == pending = {}

\* after wg.Wait: the outcomes are drained from the channels; all local copies
\* failed -> the file is a 'backup' error and the breaker is tested
Collect ==
    /\ pc = "local"
    /\ WaitGroupDone
    /\ IF AllLocalBackupsFailed
       THEN /\ IF ctxDone
               THEN Return("canceled") /\ UNCHANGED <<result, idx>>
               ELSE LET r == AddError(result, SrcPath(idx), "backup")
                    IN IF BackupThresholdExceeded(r, cfg.threshold)
                       THEN Return("threshold") /\ result' = r /\ idx' = idx
                       ELSE ContinueWalk(r)
            /\ successChan' = <<>>
            /\ errChan' = <<>>
            /\ UNCHANGED <<pending, ridx>>
       ELSE IF cfg.numRemotes > 0 /\ Len(successChan) > 0
            THEN /\ pc' = "remote"
                 /\ ridx' = 1
                 /\ UNCHANGED <<result, idx, retErr, pending, successChan, errChan>>
            ELSE FileBackedUp(result)
    /\ UNCHANGED <<cfg, mtime, calledCancelled, copyFailed, failures, now, ctxDone,
                   effects, pruneThreshold, pruneResult, archiving>>

RemoteOutcome_CountAll(r, ok) == [r EXCEPT !.RemoteCopied = @ + 1]

\* the body of a remote loop after ExecuteRemoteCopy returned: a failure is
\* logged and skipped (continue), a success is counted (result.RemoteCopied++)
RemoteOutcome(r, ok) == IF ok THEN [r EXCEPT !.RemoteCopied = @ + 1] ELSE r

\* utils.ExecuteRemoteCopy(sourcePath, remote): scp transfers the file (ok) or fails
ExecuteRemoteCopy(sourcePath, remote, ok) ==
    IF ok
    THEN Succeeds /\ remoteFiles' = remoteFiles \cup {<<sourcePath, remote>>}
    ELSE Fails /\ remoteFiles' = remoteFiles

\* one iteration of the remote loop of backupFileToAllDestinations, where
\* cancelled is the outcome of the poll that precedes the copy
RemoteLoop(cancelled) ==
    /\ pc = "remote"
    /\ IF cancelled
       THEN /\ Return("canceled")
            /\ Succeeds
            /\ UNCHANGED <<result, idx, remoteFiles, replication>>
       ELSE \E ok \in BOOLEAN :
              LET sourcePath == GetDestinationPath(successChan[1], idx, cfg)
                  r == RemoteOutcome(result, ok)
              IN /\ ExecuteRemoteCopy(sourcePath, GetRemoteBackups(cfg)[ridx], ok)
                 /\ IF ridx = cfg.numRemotes
                    THEN FileBackedUp(r)
                    ELSE /\ ridx' = ridx + 1
                         /\ result' = r
                         /\ UNCHANGED <<pc, idx, retErr, pending, successChan, errChan>>
    /\ UNCHANGED <<cfg, mtime, calledCancelled, copyFailed, now, ctxDone, source,
                   dirs, destFiles, archives, pruneThreshold, pruneResult, archiving>>

RemoteCopy_NoPoll == RemoteLoop(FALSE)

\* the remote loop polls the context before each remote copy
RemoteCopy == RemoteLoop(Polled)

PrePrune_NoPoll ==
    /\ pc = "preprune"
    /\ pc' = "prune" /\ idx' = RootEntry /\ retErr' = retErr
    /\ UNCHANGED <<cfg, mtime, calledCancelled, copyFailed, failures, now, ctxDone, effects, pruneThreshold, result,
                   pruneResult, replication, archiving>>

\* the cancellation check of RunBackup between the backup phase and the prune phase
PrePrune ==
    /\ pc = "preprune"
    /\ IF Polled
       THEN Return("canceled") /\ idx' = idx
       ELSE pc' = "prune" /\ idx' = RootEntry /\ retErr' = retErr
    /\ UNCHANGED <<cfg, mtime, calledCancelled, copyFailed, failures, now, ctxDone, effects, pruneThreshold, result,
                   pruneResult, replication, archiving>>

\* ------------------------------------------------------------------ PruneFiles
PruneCutoff_Recomputed == now - PruneAfterHours

\* the cutoff PruneFiles is called with
PruneCutoff == pruneThreshold

\* dry-run: the accounting is done without calling the delete primitive
CallsRemove(dryRun) == ~dryRun

PruneReturn_PrunedSucceeded(pr, err) ==
    /\ pruneResult' = pr
    /\ result' = [result EXCEPT !.Pruned = pr.Pruned,
                                !.Succeeded = @ + pr.Pruned,
                                !.Failed = @ + pr.Failed,
                                !.Errors = @ \o pr.Errors]
    /\ Return(err)
    /\ idx' = idx

PruneReturn_PrunedDropped(pr, err) ==
    /\ pruneResult' = pr
    /\ result' = [result EXCEPT !.Failed = @ + pr.Failed,
                                !.Errors = @ \o pr.Errors]
    /\ Return(err)
    /\ idx' = idx

\* RunBackup after PruneFiles returned (pr, err): Pruned is taken over, Failed
\* and the errors are added, and the run returns err
PruneReturn(pr, err) ==
    /\ pruneResult' = pr
    /\ result' = [result EXCEPT !.Pruned = pr.Pruned,
                                !.Failed = @ + pr.Failed,
                                !.Errors = @ \o pr.Errors]
    /\ Return(err)
    /\ idx' = idx

\* the prune callback has returned nil for entry idx
PruneContinue(pr) ==
    IF WalkDone(idx)
    THEN PruneReturn(pr, "nil")
    ELSE /\ pruneResult' = pr
         /\ idx' = idx + 1
         /\ UNCHANGED <<pc, retErr, result>>

\* one callback of the filepath.Walk of PruneFiles
PruneWalk ==
    /\ pc = "prune"
    /\ IF Polled
       THEN PruneReturn(pruneResult, "canceled") /\ Succeeds /\ source' = source
       ELSE \/ /\ Fails
               /\ LET pr == AddError(pruneResult, SrcPath(idx), "access")
                  IN IF idx = RootEntry THEN PruneReturn(pr, "nil") ELSE PruneContinue(pr)
               /\ source' = source
            \/ /\ idx = RootEntry
               /\ Succeeds
               /\ PruneContinue(pruneResult)
               /\ source' = source
            \/ /\ idx # RootEntry
               /\ ~Before(mtime[idx], PruneCutoff)
               /\ Succeeds
               /\ PruneContinue([pruneResult EXCEPT !.Skipped = @ + 1])
               /\ source' = source
            \/ /\ idx # RootEntry
               /\ Before(mtime[idx], PruneCutoff)
               /\ ~CallsRemove(cfg.dryRun)
               /\ Succeeds
               /\ PruneContinue([pruneResult EXCEPT !.Pruned = @ + 1])
               /\ source' = source
            \/ \* os.Remove succeeds
               /\ idx # RootEntry
               /\ Before(mtime[idx], PruneCutoff)
               /\ CallsRemove(cfg.dryRun)
               /\ Succeeds
               /\ source' = source \ {idx}
               /\ PruneContinue([pruneResult EXCEPT !.Pruned = @ + 1])
            \/ \* os.Remove fails: a 'prune' error, and the breaker is tested
               /\ idx # RootEntry
               /\ Before(mtime[idx], PruneCutoff)
               /\ CallsRemove(cfg.dryRun)
               /\ Fails
               /\ source' = source
               /\ LET pr == AddError(pruneResult, SrcPath(idx), "prune")
                  IN IF PruneThresholdExceeded(pr, cfg.threshold)
                     THEN PruneReturn(pr, "threshold")
                     ELSE PruneContinue(pr)
    /\ UNCHANGED <<cfg, mtime, calledCancelled, copyFailed, now, ctxDone, dirs,
                   destFiles, archives, remoteFiles, pruneThreshold, replication,
                   archiving>>

\* ------------------------------------------------------------------ archive mode
ArchivePath(d) == <<"backup", d, RootEntry, "archive">>

getFileSizes_None(files) == {}

\* getFileSizes: the sizes of the collected files that os.Stat still finds
getFileSizes(files) == files \cap source

\* the end of runArchiveBackup: every collected file is marked as backed up
ArchiveBackedUp(r) ==
    /\ result' = [r EXCEPT !.BackedUp = Cardinality(filesToArchive),
                           !.Succeeded = @ + Cardinality(getFileSizes(filesToArchive))]
    /\ pc' = "preprune"
    /\ retErr' = retErr

Collected_SkipCreate(files) ==
    /\ filesToArchive' = files
    /\ idx' = idx
    /\ retErr' = retErr
    /\ pc' = "preprune"
    /\ ridx' = 1

\* runArchiveBackup after its collection walk returned nil with the set files
Collected(files) ==
    /\ filesToArchive' = files
    /\ idx' = idx
    /\ retErr' = retErr
    /\ pc' = IF files = {} \/ cfg.dryRun THEN "preprune" ELSE "acreate"
    /\ ridx' = 1

\* the collection callback has returned nil for entry idx
CollectContinue(files) ==
    IF WalkDone(idx)
    THEN Collected(files)
    ELSE /\ filesToArchive' = files
         /\ idx' = idx + 1
         /\ UNCHANGED <<pc, retErr, ridx>>

\* one callback of the collection walk of runArchiveBackup
ArchiveWalk ==
    /\ pc = "acollect"
    /\ IF Polled
       THEN /\ Return("canceled")
            /\ Succeeds
            /\ UNCHANGED <<result, idx, filesToArchive, ridx>>
       ELSE \/ /\ Fails
               /\ result' = AddError(result, SrcPath(idx), "access")
               /\ IF idx = RootEntry
                  THEN Collected(filesToArchive)
                  ELSE CollectContinue(filesToArchive)
            \/ /\ idx = RootEntry
               /\ Succeeds
               /\ result' = result
               /\ CollectContinue(filesToArchive)
            \/ /\ idx # RootEntry
               /\ ~Before(mtime[idx], pruneThreshold)
               /\ Succeeds
               /\ result' = [result EXCEPT !.Skipped = @ + 1]
               /\ CollectContinue(filesToArchive)
            \/ /\ idx # RootEntry
               /\ Before(mtime[idx], pruneThreshold)
               /\ Succeeds
               /\ result' = result
               /\ CollectContinue(filesToArchive \cup {idx})
    /\ UNCHANGED <<cfg, mtime, calledCancelled, copyFailed, now, ctxDone, effects,
                   pruneThreshold, pruneResult, pending, successChan, errChan,
                   archivePaths>>

\* archive.CreateArchive for the backup root d: the archive with every
\* collected file is written, or creation fails (before the archive file
\* exists, or after os.Create, leaving a partial archive)
CreateArchive(d, outcome) ==
    /\ IF outcome = "full" THEN Succeeds ELSE Fails
    /\ IF outcome = "none"
       THEN archives' = archives
       ELSE archives' = {a \in archives : a.root # d}
                          \cup {[root |-> d, content |-> outcome, files |-> filesToArchive]}

\* one iteration of the archive-creation loop of runArchiveBackup
ArchiveCreate ==
    /\ pc = "acreate"
    /\ \E outcome \in {"full", "none", "partial"} :
         LET d == GetBackupPaths(cfg)[ridx]
             r == IF outcome = "full" THEN result
                  ELSE AddError(result, BackupRoot(d), "archive")
             paths == IF outcome = "full" THEN Append(archivePaths, d) ELSE archivePaths
         IN /\ CreateArchive(d, outcome)
            /\ archivePaths' = paths
            /\ IF ridx < cfg.numDests
               THEN /\ ridx' = ridx + 1
                    /\ result' = r
                    /\ UNCHANGED <<pc, retErr>>
               ELSE /\ ridx' = 1
                    /\ IF Len(paths) = 0
                       THEN Return("archive") /\ result' = r
                       ELSE IF cfg.numRemotes > 0
                            THEN pc' = "aremote" /\ result' = r /\ retErr' = retErr
                            ELSE ArchiveBackedUp(r)
    /\ UNCHANGED <<cfg, mtime, calledCancelled, copyFailed, now, ctxDone, source, dirs,
                   destFiles, remoteFiles, idx, pruneThreshold, pruneResult, pending,
                   successChan, errChan, filesToArchive>>

\* one iteration of the remote loop of runArchiveBackup
ArchiveRemote ==
    /\ pc = "aremote"
    /\ IF Polled
       THEN Return("canceled") /\ Succeeds /\ UNCHANGED <<result, remoteFiles, ridx>>
       ELSE \E ok \in BOOLEAN :
              LET r == RemoteOutcome(result, ok)
              IN /\ ExecuteRemoteCopy(ArchivePath(archivePaths[1]), GetRemoteBackups(cfg)[ridx], ok)
                 /\ IF ridx = cfg.numRemotes
                    THEN ArchiveBackedUp(r) /\ ridx' = 1
                    ELSE /\ ridx' = ridx + 1
                         /\ result' = r
                         /\ UNCHANGED <<pc, retErr>>
    /\ UNCHANGED <<cfg, mtime, calledCancelled, copyFailed, now, ctxDone, source, dirs,
                   destFiles, archives, idx, pruneThreshold, pruneResult, pending,
                   successChan, errChan, archiving>>

\* ------------------------------------------------------------------ environment
\* the shutdown signal cancels the context
Cancel ==
    /\ pc # "done"
    /\ ~ctxDone
    /\ ctxDone' = TRUE
    /\ UNCHANGED <<cfg, mtime, calledCancelled, copyFailed, failures, now, effects, pc, idx, pruneThreshold, result,
                   pruneResult, replication, archiving, retErr>>

\* the wall clock advances by one hour; the run reads it once, at its start,
\* so the time the backup phase takes is let pass at the end of that phase
Tick ==
    /\ pc = "preprune"
    /\ now < StartTime + MaxTicks
    /\ now' = now + 1
    /\ UNCHANGED <<cfg, mtime, calledCancelled, copyFailed, failures, ctxDone, effects, pc, idx, pruneThreshold, result,
                   pruneResult, replication, archiving, retErr>>

Next ==
    \/ Start
    \/ BackupWalk
    \/ \E d \in 1..MaxDests : LocalCopy(d)
    \/ Collect
    \/ RemoteCopy
    \/ ArchiveWalk
    \/ ArchiveCreate
    \/ ArchiveRemote
    \/ PrePrune
    \/ PruneWalk
    \/ Cancel
    \/ Tick

Spec == Init /\ [][Next]_vars

\* real runs with backup enabled, the breaker off, one local destination and
\* one remote destination more than the configurations of Spec have
ManyRemotesConfigs ==
    [enableBackup : {TRUE}, mode : Modes, dryRun : {FALSE}, threshold : {0},
     numDests : {1}, numRemotes : {MaxRemotes + 1}]

InitManyRemotes == InitWith(ManyRemotesConfigs)

SpecManyRemotes == InitManyRemotes /\ [][Next]_vars

\* ------------------------------------------------------------------ properties
\* the Result r holds an error of operation op for path
HasError(r, path, op) == \E i \in 1..Len(r.Errors) : r.Errors[i] = <<path, op>>

\* files whose modification time is strictly before the cutoff of this run
Qualifying == {f \in Files : mtime[f] < pruneThreshold}

\* a complete copy of file f is at destinationRoot/relativePath under root d,
\* with the compression suffix when compression is enabled
BackedUpAt(d, f) ==
    [path |-> <<"backup", d, f, IF cfg.mode = "gzip" THEN ".gz" ELSE "">>,
     content |-> "full"] \in destFiles

PerFileRun == cfg.enableBackup /\ cfg.mode # "archive" /\ ~cfg.dryRun

\* C1: in a non-dry-run per-file run with backup enabled, a file for which a
\* 'backup' error was recorded (every local destination failed) is not deleted
\* from the target directory by the prune phase of the same run.
C1_FailedBackupNotPruned ==
    PerFileRun =>
        \A f \in Files : HasError(result, SrcPath(f), "backup") => f \in source

C3_NewFilesUntouched ==
    pc # "start" =>
        \A f \in Files : ~(mtime[f] < pruneThreshold) =>
            /\ f \in source
            /\ \A a \in destFiles : a.path[3] # f
            /\ \A a \in archives : f \notin a.files
            /\ \A c \in remoteFiles : c[1][3] # f

C3_Witness ==
    /\ pc = "done" /\ retErr = "nil"
    /\ now - PruneAfterHours > pruneThreshold
    /\ \E f \in Files : mtime[f] = pruneThreshold /\ f \in source
    /\ \E g \in Files : g \notin source

\* C4: with DryRun = true no step of RunBackup creates, modifies or deletes a
\* filesystem entry or invokes a remote copy.
C4_DryRunNoEffects == [][cfg.dryRun => effects' = effects]_vars

\* the four counts of a Result that a dry run and a real run are compared on
Counts(r) ==
    [BackedUp |-> r.BackedUp, Succeeded |-> r.Succeeded,
     Skipped |-> r.Skipped, Pruned |-> r.Pruned]

\* the counts a run over this tree and configuration reports when nothing
\* fails; they depend neither on cfg.dryRun nor on the mode
CleanCounts ==
    [BackedUp |-> IF cfg.enableBackup THEN Cardinality(Qualifying) ELSE 0,
     Succeeded |-> IF cfg.enableBackup THEN Cardinality(Qualifying) ELSE 0,
     Skipped |-> IF cfg.enableBackup THEN MaxFiles - Cardinality(Qualifying) ELSE 0,
     Pruned |-> Cardinality(Qualifying)]

CleanRun == pc = "done" /\ retErr = "nil" /\ result.Failed = 0 /\ ~copyFailed

\* C5 as stated: when nothing fails, a dry run and a real run over the same
\* tree and configuration return the same BackedUp, Succeeded, Skipped and
\* Pruned, in per-file mode and in archive mode (both equal CleanCounts).
C5_DryRunSameCounts == CleanRun => Counts(result) = CleanCounts

\* C5 amended: the four counts agree in per-file mode; in archive mode Skipped
\* and Pruned agree, while the dry run reports BackedUp = 0 and Succeeded = 0.
C5_DryRunSameCountsPerFile ==
    CleanRun =>
        IF cfg.enableBackup /\ cfg.mode = "archive" /\ cfg.dryRun
        THEN Counts(result) = [CleanCounts EXCEPT !.BackedUp = 0, !.Succeeded = 0]
        ELSE Counts(result) = CleanCounts

C5_Witness ==
    /\ CleanRun /\ cfg.dryRun /\ cfg.enableBackup /\ cfg.mode = "gzip"
    /\ Cardinality(Qualifying) = 1
    /\ result.BackedUp = 1 /\ result.Pruned = 1 /\ result.Skipped = 1
    /\ source = Files /\ destFiles = {}

NothingProcessed ==
    /\ result = NewResult
    /\ source = Files /\ destFiles = {} /\ archives = {} /\ remoteFiles = {}

\* C6 as stated: called with an already-cancelled context, RunBackup returns
\* context.Canceled with an all-zero, error-free Result and copies, archives,
\* remote-copies and deletes nothing.
C6_PreCancelledReturnsCanceled ==
    (calledCancelled /\ pc = "done") => (retErr = "canceled" /\ NothingProcessed)

\* C6 amended: the same, except that with backup enabled a backup root that
\* cannot be created makes the run return the directory-creation error instead
\* of context.Canceled (the roots are created before the first poll).
C6_PreCancelledReturnsCanceledOrMkdir ==
    (calledCancelled /\ pc = "done") =>
        /\ retErr = IF cfg.enableBackup /\ ~(1..cfg.numDests \subseteq dirs)
                    THEN "mkdir" ELSE "canceled"
        /\ NothingProcessed

C6_Witness ==
    /\ calledCancelled /\ pc = "done" /\ retErr = "canceled"
    /\ cfg.enableBackup /\ ~cfg.dryRun /\ Qualifying = Files

\* positions of RunBackup at which the next step starts with a poll of the context
PollPoints == {"walk", "acollect", "remote", "aremote", "preprune", "prune"}

\* everything a step of RunBackup (not of the environment) can change
runVars == <<effects, pc, idx, result, pruneResult, replication, archiving,
             retErr, pruneThreshold>>

\* RunBackup's merge of what PruneFiles returned
WithPruneResult(r, pr) ==
    [r EXCEPT !.Pruned = pr.Pruned, !.Failed = @ + pr.Failed, !.Errors = @ \o pr.Errors]

\* C7: a step taken at a poll point (before a walked entry of the backup,
\* collection or prune walk, before a remote copy, before the prune phase)
\* while the context is cancelled starts no copy, remote copy, archive or
\* deletion and returns the Result accumulated so far with context.Canceled.
C7_PollStopsRun ==
    [][(ctxDone /\ pc \in PollPoints /\ runVars' # runVars) =>
        /\ effects' = effects
        /\ pc' = "done" /\ retErr' = "canceled"
        /\ result' = IF pc = "prune" THEN WithPruneResult(result, pruneResult) ELSE result
      ]_vars

C7_Witness ==
    /\ pc = "done" /\ retErr = "canceled" /\ ~calledCancelled
    /\ result.BackedUp = 1 /\ result.RemoteCopied = 1 /\ Cardinality(remoteFiles) = 1
    /\ \E f \in Files : \E d \in 1..cfg.numDests :
          [path |-> <<"backup", d, f, "">>, content |-> "full"] \in destFiles
          /\ \A c \in remoteFiles : c[1][3] # f

\* a step of the prune walk in which os.Remove has failed
DeletionFailed ==
    /\ pc = "prune"
    /\ pruneResult'.Errors = Append(pruneResult.Errors, <<SrcPath(idx), "prune">>)

\* RunBackup returns the threshold-exceeded error in this step
Tripped == retErr = "running" /\ pc' = "done" /\ retErr' = "threshold"

\* C8: with T > 0, the deletion failure that lifts the failure rate of the
\* prune walk above T ends the run with the threshold error; nothing is
\* deleted in or after that step, and the returned Pruned, Failed and errors
\* are those of the entries walked so far.
C8_PruneBreakerStops ==
    [][/\ (DeletionFailed /\ cfg.threshold > 0
           /\ pruneResult'.Failed * 100
                > cfg.threshold * (pruneResult'.Pruned + pruneResult'.Failed)) =>
            /\ Tripped
            /\ source' = source
            /\ \A f \in Files : f > idx => f \in source'
            /\ result'.Pruned = Cardinality(Files \ source')
            /\ result'.Failed = result.Failed + pruneResult'.Failed
            /\ result'.Errors = result.Errors \o pruneResult'.Errors
            /\ \A i \in 1..Len(pruneResult'.Errors) : pruneResult'.Errors[i][1][2] <= idx
       /\ pc = "done" => effects' = effects
      ]_vars

C8_Witness ==
    /\ pc = "done" /\ retErr = "threshold"
    /\ pruneResult.Failed = 1
    /\ idx < MaxFiles
    /\ \A f \in Files : f > idx => f \in Qualifying /\ f \in source

\* C9 as stated: the rate the breaker compares with T in the prune phase counts
\* the successes and failures of the backup phase together with the prune
\* outcomes so far.
C9_PruneBreakerCumulative ==
    [][(DeletionFailed /\ cfg.threshold > 0) =>
        (Tripped <=>
            (result.Failed + pruneResult'.Failed) * 100
              > cfg.threshold * (result.Succeeded + result.Failed
                                   + pruneResult'.Pruned + pruneResult'.Failed))
      ]_vars

\* C9 amended: the rate the breaker compares with T in the prune phase counts
\* the outcomes of the prune walk alone (files pruned and entries failed).
C9_PruneBreakerPruneOnly ==
    [][(DeletionFailed /\ cfg.threshold > 0) =>
        (Tripped <=>
            pruneResult'.Failed * 100
              > cfg.threshold * (pruneResult'.Pruned + pruneResult'.Failed))
      ]_vars

C9_Witness ==
    /\ pc = "done" /\ retErr = "threshold"
    /\ pruneResult.Failed = 1 /\ pruneResult.Pruned = 0
    /\ result.Succeeded = 2 /\ result.Failed = 1
    /\ result.Failed * 100 <= cfg.threshold * (result.Succeeded + result.Failed)

\* a step in which a backup failure or a deletion failure has been recorded
BackupFailed ==
    /\ pc = "local"
    /\ result'.Errors = Append(result.Errors, <<SrcPath(idx), "backup">>)

LocallyBackedUp == {f \in Files : \E d \in 1..cfg.numDests : BackedUpAt(d, f)}

\* the walk is between two entries, or the run has returned nil or the threshold error
BetweenFiles ==
    \/ pc \in {"walk", "preprune", "prune"}
    \/ pc = "done" /\ retErr \in {"nil", "threshold"}

AllCopiesFailedStep ==
    pc = "local" /\ pending = {} /\ successChan = <<>> /\ pc' # "local"

\* C12: when every local copy attempt of a file has failed, the step that
\* follows records exactly one 'backup' error for the file, raises Failed by
\* one, leaves BackedUp and Succeeded alone and starts no remote copy.
C12_AllFailedIsOneBackupError ==
    [][AllCopiesFailedStep =>
          /\ result'.Errors = Append(result.Errors, <<SrcPath(idx), "backup">>)
          /\ result'.Failed = result.Failed + 1
          /\ result'.BackedUp = result.BackedUp
          /\ result'.Succeeded = result.Succeeded
          /\ pc' # "remote"
          /\ remoteFiles' = remoteFiles]_vars

\* C13: while the remote copies of a file are made, their source is the
\* artifact of the successful local destination that comes first in
\* destination-list order, whatever order the local copies finished in.
C13_RemoteSourceFirstInListOrder ==
    pc = "remote" =>
        \A k \in 1..Len(successChan) : successChan[1] <= successChan[k]

\* the path handed to the remote copies of the file being replicated
RemoteSource == GetDestinationPath(successChan[1], idx, cfg)

\* a complete artifact written in this run is at path p under a backup root
ArtifactAt(p) == p[1] = "backup" /\ [path |-> p, content |-> "full"] \in destFiles

\* C14: in per-file mode the path handed to a remote copy, and every path a
\* remote destination has received, is a complete artifact under a local
\* backup root (with the suffix the compressor wrote it under), never the
\* original under the target root.
C14_RemoteSourceIsWrittenArtifact ==
    (cfg.mode # "archive") =>
        /\ pc = "remote" => ArtifactAt(RemoteSource)
        /\ \A c \in remoteFiles : ArtifactAt(c[1])

C14_Witness ==
    /\ cfg.mode = "gzip" /\ pc = "done" /\ retErr = "nil"
    /\ \E f \in Files :
          /\ remoteFiles = {<<(<<"backup", 1, f, ".gz">>), 1>>}
          /\ [path |-> <<"backup", 1, f, ".gz">>, content |-> "full"] \in destFiles
          /\ f \notin source

\* a step of a remote loop that is not stopped by a poll: one remote copy is attempted
RemoteAttempt == pc \in {"remote", "aremote"} /\ ~ctxDone /\ ctxDone' = ctxDone

\* what the remote destinations receive in this step
Received == remoteFiles' \ remoteFiles

\* C15: a remote copy that is attempted, failed or not, records no error and
\* does not end the run; the only destination it can reach is the next one of
\* the remote list, RemoteCopied grows by the number of copies received, and
\* then either the next remote destination is attempted or, after the last
\* one, the file (every collected file in archive mode) is counted as backed
\* up and succeeded.
C15_FailedRemoteCopySkipped ==
    [][RemoteAttempt =>
          /\ retErr' = "running"
          /\ result'.Failed = result.Failed
          /\ result'.Errors = result.Errors
          /\ \A c \in Received : c[2] = GetRemoteBackups(cfg)[ridx]
          /\ result'.RemoteCopied = result.RemoteCopied + Cardinality(Received)
          /\ IF ridx < cfg.numRemotes
             THEN pc' = pc /\ ridx' = ridx + 1 /\ result'.BackedUp = result.BackedUp
             ELSE IF pc = "remote"
                  THEN /\ result'.BackedUp = result.BackedUp + 1
                       /\ result'.Succeeded = result.Succeeded + 1
                       /\ pc' \in {"walk", "preprune"}
                  ELSE /\ result'.BackedUp = Cardinality(filesToArchive)
                       /\ result'.Succeeded =
                             result.Succeeded + Cardinality(filesToArchive \cap source)
                       /\ pc' = "preprune"]_vars

\* the first remote copy of a file failed, the second one was made, and the
\* file is counted
C15_Witness ==
    /\ cfg.mode = "copy" /\ cfg.numRemotes = 2 /\ pc = "done" /\ retErr = "nil"
    /\ failures = 1 /\ ~copyFailed /\ result.Failed = 0
    /\ Cardinality(Qualifying) = 1
    /\ \E f \in Qualifying : remoteFiles = {<<(<<"backup", 1, f, "">>), 2>>}
    /\ result.RemoteCopied = 1 /\ result.BackedUp = 1 /\ result.Succeeded = 1

\* C16 as stated: every operation that failed during the run has its entry in
\* the error list of the returned Result.
C16_EveryFailureRecorded == pc = "done" => Len(result.Errors) >= failures

\* the error entries that are, or at the return of PruneFiles will be, in the
\* Result of RunBackup
Recorded ==
    IF pc = "prune" THEN result.Errors \o pruneResult.Errors ELSE result.Errors

RecordedNext ==
    IF pc' = "prune" THEN result'.Errors \o pruneResult'.Errors ELSE result'.Errors

\* C16 amended: the failures that get an entry are an entry that cannot be
\* accessed ('access'), a failed archive creation ('archive', with the backup
\* root as path), a failed deletion ('prune') and a file all of whose local
\* copies failed ('backup', unless the context is cancelled by then); a failed
\* local copy as such and a failed remote copy leave no entry, and no other
\* step changes the error list.
C16_RecordedFailures ==
    [][/\ failures' > failures =>
             CASE pc \in {"walk", "acollect"} ->
                    RecordedNext = Append(Recorded, <<SrcPath(idx), "access">>)
               [] pc = "acreate" ->
                    RecordedNext =
                       Append(Recorded, <<BackupRoot(GetBackupPaths(cfg)[ridx]), "archive">>)
               [] pc = "prune" ->
                    \/ RecordedNext = Append(Recorded, <<SrcPath(idx), "access">>)
                    \/ RecordedNext = Append(Recorded, <<SrcPath(idx), "prune">>)
               [] OTHER -> RecordedNext = Recorded
       /\ failures' = failures =>
             IF AllCopiesFailedStep /\ ~ctxDone
             THEN RecordedNext = Append(Recorded, <<SrcPath(idx), "backup">>)
             ELSE RecordedNext = Recorded]_vars

\* a remote copy failed, the run returned nil and its Result has no error entry
C16_Witness ==
    /\ PerFileRun /\ cfg.numRemotes = 1 /\ pc = "done" /\ retErr = "nil"
    /\ failures = 1 /\ ~copyFailed
    /\ result.BackedUp = 1 /\ result.RemoteCopied = 0 /\ remoteFiles = {}
    /\ result.Errors = <<>> /\ result.Failed = 0

\* the step in which RunBackup returns
Returns == pc # "done" /\ pc' = "done"

\* C17 as stated: a run ends with nil, with the cancellation error, with the
\* threshold error or with the configuration error and with nothing else.
C17_OnlyCancelThresholdConfig ==
    pc = "done" => retErr \in {"nil", "canceled", "threshold", "mkdir"}

\* C17 amended: RunBackup returns nil only from the end of the prune walk;
\* every other return is a poll that saw the cancelled context, a breaker
\* (T > 0) tripped by a 'backup' or 'prune' error, a backup root that could
\* not be created before any file was processed, or, in archive mode, the
\* failure of every archive creation, which returns before the prune phase.
C17_EarlyReturns ==
    [][Returns =>
          \/ retErr' = "nil" /\ pc = "prune"
          \/ retErr' = "canceled" /\ ctxDone
          \/ retErr' = "threshold" /\ cfg.threshold > 0 /\ pc \in {"local", "prune"}
                /\ Len(RecordedNext) > 0
          \/ retErr' = "mkdir" /\ pc = "start" /\ result = NewResult
          \/ retErr' = "archive" /\ pc = "acreate" /\ archivePaths' = <<>>
                /\ source' = Files]_vars

\* every archive creation failed: the run has returned without pruning
C17_Witness ==
    /\ pc = "done" /\ retErr = "archive" /\ cfg.mode = "archive"
    /\ result.Errors = << <<BackupRoot(1), "archive">> >>
    /\ Qualifying # {} /\ source = Files /\ archives = {}

\* ------------------------------------------------------------------ destination paths
\* A path is a sequence of components and a component a sequence of name
\* parts, so that an extension can be added to the last component.
TargetFolder == << <<"target">> >>
BackupFolders == {<< <<"backup1">> >>, << <<"mnt">>, <<"backup2">> >>}
SubDirs == {<<>>, << <<"a">> >>, << <<"b">> >>, << <<"a">>, <<"b">> >>}
FileNames == {<<"app", ".log">>, <<"app", ".log", ".gz">>}

\* the files a target tree can hold, as the paths filepath.Walk passes to its callback
TreeFiles == {TargetFolder \o d \o <<n>> : d \in SubDirs, n \in FileNames}

Rel_BaseName(base, path) == <<path[Len(path)]>>

\* filepath.Rel(cfg.TargetFolder, path) for a path below the target folder
Rel(base, path) == SubSeq(path, Len(base) + 1, Len(path))

\* filepath.Join(backupPath, relPath)
Join(dir, rel) == dir \o rel

\* dest + ExtensionFor(cfg.Algorithm)
AddExtension(path, ext) ==
    IF ext = "" THEN path ELSE [path EXCEPT ![Len(path)] = Append(@, ext)]

\* the file compression.CompressFile(src, dest, cfg) writes
CompressedFile(dest, enabled) ==
    IF enabled THEN AddExtension(dest, ExtensionFor("gzip")) ELSE dest

\* a target tree of up to MaxFiles files, one backup folder, compression on or
\* off; no file has been replicated yet
InitPaths ==
    /\ cfg \in [backupPath : BackupFolders, compression : BOOLEAN]
    /\ source \in {t \in SUBSET TreeFiles : Cardinality(t) \in 1..MaxFiles}
    /\ pending = source
    /\ destFiles = {}
    /\ mtime = <<>> /\ now = StartTime /\ ctxDone = FALSE
    /\ calledCancelled = FALSE /\ copyFailed = FALSE /\ failures = 0
    /\ dirs = {} /\ archives = {} /\ remoteFiles = {}
    /\ pc = "walk" /\ idx = 0 /\ pruneThreshold = 0
    /\ result = NewResult /\ pruneResult = NewPruneResult
    /\ successChan = <<>> /\ errChan = <<>> /\ ridx = 1
    /\ filesToArchive = {} /\ archivePaths = <<>> /\ retErr = "running"

\* the local copy of backupFileToAllDestinations for the file at path,
\* succeeding: the artifact holds the content of that file
BackupFileTo(path) ==
    /\ path \in pending
    /\ LET relPath == Rel(TargetFolder, path)
           destPath == Join(cfg.backupPath, relPath)
       IN destFiles' = WriteFile(destFiles, CompressedFile(destPath, cfg.compression), path)
    /\ pending' = pending \ {path}
    /\ result' = FileSucceeded(result)
    /\ UNCHANGED <<cfg, mtime, calledCancelled, copyFailed, failures, now, ctxDone,
                   source, dirs, archives, remoteFiles, pc, idx, pruneThreshold,
                   pruneResult, successChan, errChan, ridx, archiving, retErr>>

NextPaths == \E path \in TreeFiles : BackupFileTo(path)

SpecPaths == InitPaths /\ [][NextPaths]_vars

\* destinationRoot/relativePath of a file of the tree, spelled out: the
\* components below the target folder appended to the backup folder, with
\* ".gz" added to the file name when compression is enabled
ExpectedBackup(f) ==
    LET below == [k \in 1..(Len(f) - 1) |-> f[k + 1]]
        named == IF cfg.compression
                 THEN [below EXCEPT ![Len(below)] = @ \o <<".gz">>]
                 ELSE below
    IN cfg.backupPath \o named

\* C18: every file replicated so far has its backup at
\* destinationRoot/relativePath holding its own content, whatever other files,
\* with the same base name or not, were replicated before or after it.
C18_NoDestinationCollision ==
    \A f \in source \ pending :
        [path |-> ExpectedBackup(f), content |-> f] \in destFiles

\* two files with the same base name in different subdirectories are both backed up
C18_Witness ==
    /\ pending = {} /\ Cardinality(source) = 2 /\ Cardinality(destFiles) = 2
    /\ \E f, g \in source : f # g /\ f[Len(f)] = g[Len(g)]

\* C19: at every point of a run Succeeded + Failed of the Result is at most
\* the number of files the run has visited, which is at most the number of
\* files of the target tree.
C19_SucceededPlusFailedBounded ==
    result.Succeeded + result.Failed <= Cardinality(Files)

\* ------------------------------------------------------------------ Result.Merge
\* the other of a Merge call that is a nil pointer
Nil == [nil |-> TRUE]
IsNil(other) == "nil" \in DOMAIN other

CountFields ==
    {"Succeeded", "Failed", "Skipped", "TotalBytes", "BackedUp", "Pruned",
     "RemoteCopied", "OriginalBytes", "CompressedBytes", "ArchiveSize"}

ArchivePathValues == {"", "a.tar", "b.tar"}
ErrorLists ==
    {<<>>, << <<SrcPath(1), "backup">> >>, << <<SrcPath(2), "prune">> >>}

\* a backup.Result with all its fields
FullResult(n, m, path, errs) ==
    [Succeeded |-> n, Failed |-> m, Skipped |-> n, TotalBytes |-> m,
     BackedUp |-> n, Pruned |-> m, RemoteCopied |-> n, OriginalBytes |-> m,
     CompressedBytes |-> n, ArchiveSize |-> m, ArchivePath |-> path, Errors |-> errs]

\* Results of MaxCount processed files each, n of them succeeded
MergeInputs ==
    {FullResult(n, MaxCount - n, path, errs) :
        n \in 0..MaxCount, path \in ArchivePathValues, errs \in ErrorLists}

Merge_ErrorsDropped(r, other) ==
    IF IsNil(other) THEN r
    ELSE [f \in DOMAIN r |->
            IF f \in CountFields THEN r[f] + other[f]
            ELSE IF f = "ArchivePath"
                 THEN IF other.ArchivePath # "" /\ r.ArchivePath = ""
                      THEN other.ArchivePath ELSE r.ArchivePath
                 ELSE r.Errors]

\* (*Result).Merge: r after r.Merge(other)
Merge(r, other) ==
    IF IsNil(other) THEN r
    ELSE [f \in DOMAIN r |->
            IF f \in CountFields THEN r[f] + other[f]
            ELSE IF f = "ArchivePath"
                 THEN IF other.ArchivePath # "" /\ r.ArchivePath = ""
                      THEN other.ArchivePath ELSE r.ArchivePath
                 ELSE r.Errors \o other.Errors]

\* a receiver and two Results (or nil pointers) that are going to be merged into it
InitMerge ==
    /\ result \in MergeInputs
    /\ successChan \in [1..2 -> MergeInputs \cup {Nil}]
    /\ pc = "merge"
    /\ cfg = [mode |-> "copy"] /\ mtime = <<>> /\ now = StartTime /\ ctxDone = FALSE
    /\ calledCancelled = FALSE /\ copyFailed = FALSE /\ failures = 0
    /\ source = {} /\ dirs = {} /\ destFiles = {} /\ archives = {} /\ remoteFiles = {}
    /\ idx = 0 /\ pruneThreshold = 0 /\ pruneResult = NewPruneResult
    /\ pending = {} /\ errChan = <<>> /\ ridx = 1
    /\ filesToArchive = {} /\ archivePaths = <<>> /\ retErr = "running"

\* result.Merge(other) for the next Result waiting to be merged
MergeNext ==
    /\ pc = "merge"
    /\ successChan # <<>>
    /\ result' = Merge(result, Head(successChan))
    /\ successChan' = Tail(successChan)
    /\ UNCHANGED <<cfg, mtime, calledCancelled, copyFailed, failures, now, ctxDone,
                   effects, pc, idx, pruneThreshold, pruneResult, pending, errChan,
                   ridx, archiving, retErr>>

SpecMerge == InitMerge /\ [][MergeNext]_vars

\* the Results that are not nil pointers among those waiting to be merged
Waiting == {successChan[k] : k \in 1..Len(successChan)} \ {Nil}

\* how often the entry e occurs in the error list errs
Occurrences(errs, e) == Cardinality({k \in 1..Len(errs) : errs[k] = e})

SameEntries(errs1, errs2) ==
    /\ Len(errs1) = Len(errs2)
    /\ \A k \in 1..Len(errs1) : Occurrences(errs1, errs1[k]) = Occurrences(errs2, errs1[k])

\* C20 as stated: merging two Results in either order gives the same Result,
\* and so does merging three of them in either grouping.
C20_MergeCommutativeAssociative ==
    pc = "merge" =>
        \A b, c \in Waiting :
            /\ Merge(result, b) = Merge(b, result)
            /\ Merge(Merge(result, b), c) = Merge(result, Merge(b, c))

\* C20 amended: Merge is associative; the order of two Results does not
\* change the counts and byte totals nor which error entries the merged list
\* holds, but the list is the receiver's entries followed by the other's and
\* the archive path is the receiver's unless that is empty; and each Merge
\* call adds the other's counts, appends its errors, keeps the first
\* non-empty archive path, and leaves the receiver unchanged for nil.
C20_MergeAssociativeOrdered ==
    /\ [](pc = "merge" =>
            \A b, c \in Waiting :
                /\ Merge(Merge(result, b), c) = Merge(result, Merge(b, c))
                /\ \A f \in CountFields : Merge(result, b)[f] = Merge(b, result)[f]
                /\ SameEntries(Merge(result, b).Errors, Merge(b, result).Errors)
                /\ Merge(result, Nil) = result)
    /\ [][pc = "merge" =>
            LET other == Head(successChan)
            IN IF IsNil(other) THEN result' = result
               ELSE /\ \A f \in CountFields : result'[f] = result[f] + other[f]
                    /\ result'.Errors = result.Errors \o other.Errors
                    /\ result'.ArchivePath =
                          IF result.ArchivePath # "" THEN result.ArchivePath
                          ELSE other.ArchivePath]_vars

\* two Results with different errors and archive paths have been merged into a third
C20_Witness ==
    /\ pc = "merge" /\ successChan = <<>>
    /\ Len(result.Errors) = 2 /\ result.Errors[1] # result.Errors[2]
    /\ result.ArchivePath = "b.tar"
    /\ result.Succeeded = 2 /\ result.Failed = 1

\* ------------------------------------------------------------------ archives
\* Creator.CreateArchive and ExtractArchive of the archive package, on a
\* destination root that holds the archives of successive runs. In this
\* specification source is the target tree as [path, content] records,
\* archives the archive files below the destination root with the day of
\* their last write, destFiles the files below the extraction directory,
\* filesToArchive the batch handed to the latest CreateArchive call, now the
\* day of the reference time, and pending the history of the files that
\* were pruned after a run had archived them, with the day of that run.

Formats == {"tar", "tar.gz", "zip"}
GroupBys == {"daily", "weekly", "monthly"}

\* the reference times of the runs, as time.Format and ISOWeek print them:
\* Sunday of ISO week 4, then Monday and Sunday of ISO week 5 of 2026
Calendar ==
    << [daily |-> "2026-01-25", weekly |-> "2026-W04", monthly |-> "2026-01"],
       [daily |-> "2026-01-26", weekly |-> "2026-W05", monthly |-> "2026-01"],
       [daily |-> "2026-02-01", weekly |-> "2026-W05", monthly |-> "2026-02"] >>

OutputDir == << <<"backup1">> >>
ExtractDir == << <<"restore">> >>
\* the files the target tree can hold: two of the same name in different
\* directories, and one more
ArchiveTree ==
    {TargetFolder \o <<<<"app", ".log">>>>,
     TargetFolder \o <<<<"a">>, <<"app", ".log">>>>,
     TargetFolder \o <<<<"a">>, <<"app", ".log", ".gz">>>>}
Contents == {"", "bytes"}

\* archive.ExtensionFor(format), as the suffixes of the archive name
ArchiveExtensionFor(format) ==
    CASE format = "tar" -> <<".tar">>
      [] format = "tar.gz" -> <<".tar", ".gz">>
      [] format = "zip" -> <<".zip">>
      [] OTHER -> <<".tar", ".gz">>

GenerateArchiveName_Daily(t, groupBy, format) ==
    <<"backup-", Calendar[t].daily>> \o ArchiveExtensionFor(format)

\* GenerateArchiveName(t, groupBy, format): one path component
GenerateArchiveName(t, groupBy, format) ==
    LET datePart == CASE groupBy = "daily" -> Calendar[t].daily
                      [] groupBy = "weekly" -> Calendar[t].weekly
                      [] groupBy = "monthly" -> Calendar[t].monthly
                      [] OTHER -> Calendar[t].daily
    IN <<"backup-", datePart>> \o ArchiveExtensionFor(format)

ContainerOf_AlwaysGzip(format) == "gzip"

\* the writer CreateArchive selects for the format: a plain tar stream, a
\* gzip stream around a tar stream, or a zip file
ContainerOf(format) ==
    CASE format = "tar" -> "tar"
      [] format = "tar.gz" -> "gzip"
      [] format = "zip" -> "zip"
      [] OTHER -> "gzip"

\* the reader ExtractArchive selects from the name of the archive file
ReaderFor(archivePath) ==
    LET name == archivePath[Len(archivePath)]
        ext == name[Len(name)]
    IN IF Len(name) >= 2 /\ name[Len(name) - 1] = ".tar" /\ ext = ".gz" THEN "gzip"
       ELSE CASE ext = ".tar" -> "tar"
              [] ext = ".gz" -> "gzip"
              [] ext = ".zip" -> "zip"
              [] OTHER -> "unknown"

\* os.Stat(srcPath) succeeds
Exists(fs, p) == \E f \in fs : f.path = p
ContentOf(fs, p) == (CHOOSE f \in fs : f.path = p).content

\* the orders in which range can visit the keys of the files map
Orders(F) ==
    {s \in [1..Cardinality(F) -> F] : \A i, j \in 1..Cardinality(F) : i # j => s[i] # s[j]}

\* the entry of the files map for the collected file p, with the content
\* the archive writer reads
BatchEntry(p) ==
    [path |-> p, name |-> Rel(TargetFolder, p),
     content |-> IF Exists(source, p) THEN ContentOf(source, p) ELSE ""]

\* createTarArchive / createZipArchive on the files in the given order: the
\* entries written before the first file whose stat fails, or all of them
Written(order) ==
    LET missing == {k \in 1..Len(order) : ~Exists(source, order[k])}
        n == IF missing = {} THEN Len(order)
             ELSE (CHOOSE k \in missing : \A m \in missing : k <= m) - 1
    IN [k \in 1..n |-> [name |-> Rel(TargetFolder, order[k]),
                        body |-> ContentOf(source, order[k])]]

\* Creator.CreateArchive(files, archiveTime) for the destination root, the
\* files map holding the collected paths F: nothing happens for an empty
\* map; otherwise the archive file is created (truncated if it exists) and
\* written entry by entry, and the call fails at the first file whose stat
\* fails, with the archive file left as written so far
CreatorCreateArchive ==
    /\ pc = "idle"
    /\ \E F \in SUBSET ArchiveTree :
         /\ \E order \in Orders(F) :
              LET archiveName == GenerateArchiveName(now, cfg.groupBy, cfg.format)
                  archivePath == Join(OutputDir, <<archiveName>>)
                  entries == Written(order)
                  ok == Len(entries) = Len(order)
              IN /\ filesToArchive' = {BatchEntry(p) : p \in F}
                 /\ IF F = {}
                    THEN /\ result' = [ArchivePath |-> <<>>, FilesArchived |-> 0]
                         /\ retErr' = "nil"
                         /\ UNCHANGED <<archives, archivePaths, pc>>
                    ELSE /\ archives' = {a \in archives : a.path # archivePath}
                                        \cup {[path |-> archivePath, modTime |-> now,
                                                content |-> [container |-> ContainerOf(cfg.format),
                                                             entries |-> entries]]}
                         /\ IF ok
                            THEN /\ result' = [ArchivePath |-> archivePath,
                                               FilesArchived |-> Len(entries)]
                                 /\ archivePaths' = <<archivePath>>
                                 /\ retErr' = "nil"
                                 /\ pc' = "created"
                            ELSE /\ result' = Nil
                                 /\ archivePaths' = <<>>
                                 /\ retErr' = "archive"
                                 /\ pc' = "failed"
    /\ UNCHANGED <<cfg, mtime, calledCancelled, copyFailed, failures, now, ctxDone,
                   source, dirs, destFiles, remoteFiles, idx, pruneThreshold, pruneResult,
                   pending, successChan, errChan, ridx>>

RECURSIVE ExtractEntries(_, _, _)
\* the loop of extractTar / extractZip: each entry is created at
\* filepath.Join(destDir, name) and its body copied
ExtractEntries(fs, entries, destDir) ==
    IF entries = <<>> THEN fs
    ELSE ExtractEntries(WriteFile(fs, Join(destDir, Head(entries).name), Head(entries).body),
                        Tail(entries), destDir)

\* ExtractArchive(archivePath, destDir) on the archive the latest call
\* returned, into a new empty extraction directory
ExtractArchive ==
    /\ pc = "created"
    /\ LET archivePath == result.ArchivePath
           file == CHOOSE a \in archives : a.path = archivePath
       IN IF ReaderFor(archivePath) = file.content.container
          THEN /\ destFiles' = ExtractEntries({}, file.content.entries, ExtractDir)
               /\ retErr' = "nil"
          ELSE /\ destFiles' = {}
               /\ retErr' = "extract"
    /\ pc' = "extracted"
    /\ UNCHANGED <<cfg, mtime, calledCancelled, copyFailed, failures, now, ctxDone,
                   source, dirs, archives, remoteFiles, idx, pruneThreshold, result,
                   pruneResult, replication, archiving>>

\* the prune phase of a run whose archive was created, and the return of the
\* run: the archived files are removed from the target tree
PruneArchived ==
    /\ pc = "created"
    /\ source' = {f \in source : \A b \in filesToArchive : b.path # f.path}
    /\ pc' = "idle"
    /\ filesToArchive' = {} /\ archivePaths' = <<>> /\ result' = Nil
    /\ pending' = pending \cup {[name |-> b.name, body |-> b.content, day |-> now] :
                                   b \in filesToArchive}
    /\ UNCHANGED <<cfg, mtime, calledCancelled, copyFailed, failures, now, ctxDone,
                   dirs, destFiles, archives, remoteFiles, idx, pruneThreshold,
                   pruneResult, successChan, errChan, ridx, retErr>>

\* the next run starts on a later day
NextDay ==
    /\ pc \in {"idle", "failed"}
    /\ now < Len(Calendar)
    /\ now' = now + 1
    /\ pc' = "idle"
    /\ filesToArchive' = {} /\ archivePaths' = <<>> /\ result' = Nil
    /\ UNCHANGED <<cfg, mtime, calledCancelled, copyFailed, failures, ctxDone, effects,
                   idx, pruneThreshold, pruneResult, replication, retErr>>

\* the non-empty target trees with contents from cs
Trees(cs) ==
    {fs \in SUBSET [path : ArchiveTree, content : cs] :
        /\ fs # {}
        /\ \A f, g \in fs : f.path = g.path => f = g}

InitArchiveWith(formats, cs, days) ==
    /\ cfg \in [format : formats, groupBy : GroupBys \cup {""}]
    /\ source \in Trees(cs)
    /\ now \in days /\ pc = "idle" /\ idx = 0
    /\ archives = {} /\ destFiles = {} /\ filesToArchive = {} /\ archivePaths = <<>>
    /\ result = Nil /\ retErr = "running"
    /\ mtime = <<>> /\ ctxDone = FALSE
    /\ calledCancelled = FALSE /\ copyFailed = FALSE /\ failures = 0
    /\ dirs = {} /\ remoteFiles = {} /\ pruneThreshold = 0 /\ pruneResult = NewPruneResult
    /\ pending = {} /\ successChan = <<>> /\ errChan = <<>> /\ ridx = 1

\* one archive policy and target tree, archived on some day and extracted
InitArchive == InitArchiveWith(Formats \cup {""}, Contents, {1})

NextArchive == CreatorCreateArchive \/ ExtractArchive

SpecArchive == InitArchive /\ [][NextArchive]_vars

\* the archive-mode runs of a service on successive days, each followed by
\* its prune phase
InitArchiveRuns == InitArchiveWith(Formats, {"bytes"}, {1})

NextArchiveRuns == CreatorCreateArchive \/ PruneArchived \/ NextDay

SpecArchiveRuns == InitArchiveRuns /\ [][NextArchiveRuns]_vars

\* C21: after ExtractArchive of the archive CreateArchive returned for a
\* non-empty batch, every file of the batch exists below the extraction
\* directory at its relative name with the content it had, and
\* FilesArchived is the number of files of the batch.
C21_ArchiveRoundTrip ==
    /\ pc = "created" => result.FilesArchived = Cardinality(filesToArchive)
    /\ pc = "extracted" =>
         /\ retErr = "nil"
         /\ result.FilesArchived = Cardinality(filesToArchive)
         /\ \A b \in filesToArchive :
              [path |-> Join(ExtractDir, b.name), content |-> b.content] \in destFiles

\* two files of the same name in different directories, one of them empty,
\* have been archived and extracted
C21_Witness ==
    /\ pc = "extracted"
    /\ \E b, c \in filesToArchive :
         /\ b.name # c.name /\ b.name[Len(b.name)] = c.name[Len(c.name)]
         /\ b.content = "" /\ c.content = "bytes"
         /\ [path |-> Join(ExtractDir, b.name), content |-> ""] \in destFiles

\* C22: when the stat of a file of the batch fails, CreateArchive returns an
\* error and no result, and no archive file is left at the archive path.
C22_FailedStatLeavesNoArchive ==
    pc = "failed" =>
        /\ result = Nil /\ retErr = "archive"
        /\ ~Exists(archives, Join(OutputDir, <<GenerateArchiveName(now, cfg.groupBy, cfg.format)>>))

\* ------------------------------------------------------------------ archive and compression
\* the mode RunBackup runs in for a Config with the given archive.enabled and
\* compression.enabled: archiveCfg.Enabled is tested first, and the
\* compression configuration is read by the file-by-file replication only
ModeOf(archiveEnabled, compressionEnabled) ==
    IF archiveEnabled THEN "archive"
    ELSE IF compressionEnabled THEN "gzip" ELSE "copy"

\* Configs that enable both archive mode and per-file compression, as a
\* caller of RunBackup can build them
BothEnabledConfigs ==
    {[enableBackup |-> TRUE, mode |-> ModeOf(TRUE, TRUE), archiveEnabled |-> TRUE,
      compressionEnabled |-> TRUE, dryRun |-> d, threshold |-> t, numDests |-> 1,
      numRemotes |-> MaxRemotes] : d \in BOOLEAN, t \in Thresholds}

InitBothEnabled == InitWith(BothEnabledConfigs)

NextBothEnabled ==
    \/ Start
    \/ ArchiveWalk
    \/ ArchiveCreate
    \/ ArchiveRemote
    \/ PrePrune
    \/ PruneWalk
    \/ Cancel
    \/ Tick

SpecBothEnabled == InitBothEnabled /\ [][NextBothEnabled]_vars

\* C23: called with archive mode and per-file compression both enabled,
\* RunBackup returns a configuration error at once: no entry is visited and
\* nothing is created, written, sent or deleted.
C23_BothEnabledIsConfigError ==
    (cfg.archiveEnabled /\ cfg.compressionEnabled) =>
        /\ pc \in {"start", "done"}
        /\ pc = "done" =>
             /\ retErr = "config"
             /\ result = NewResult
             /\ source = Files /\ destFiles = {} /\ archives = {} /\ remoteFiles = {}

\* ------------------------------------------------------------------ destination lists
\* Config.GetBackupPaths and Config.GetRemoteBackups on the configured
\* values, and the copies of one file they lead to. In this specification cfg
\* holds the four configured fields, archivePaths the resolved local list,
\* pending the resolved remote list, successChan the local destinations
\* written for the file so far and errChan the remotes it was sent to.
MaxList == 2

\* configured values: unset, or one of two destinations
Entries == {"", "x", "y"}
Lists == UNION {[1..n -> Entries] : n \in 0..MaxList}

RECURSIVE AppendUnique(_, _)
\* the loop over the list value: an entry is appended unless it is empty or
\* already in the result
AppendUnique(acc, list) ==
    IF list = <<>> THEN acc
    ELSE LET p == Head(list)
             found == \E k \in 1..Len(acc) : acc[k] = p
         IN AppendUnique(IF p # "" /\ ~found THEN Append(acc, p) ELSE acc, Tail(list))

NonEmpty(e) == e # ""

MergedEntries_KeepRepeated(single, list) ==
    (IF single # "" THEN <<single>> ELSE <<>>) \o SelectSeq(list, NonEmpty)

\* Config.GetBackupPaths / Config.GetRemoteBackups on a single value and a list value
MergedEntries(single, list) ==
    AppendUnique(IF single # "" THEN <<single>> ELSE <<>>, list)

InitLists ==
    /\ cfg \in [backupPath : Entries, backupPaths : Lists,
                remoteBackup : Entries, remoteBackups : Lists]
    /\ pc = "start"
    /\ archivePaths = <<>> /\ pending = <<>> /\ successChan = <<>> /\ errChan = <<>>
    /\ mtime = <<>> /\ now = StartTime /\ ctxDone = FALSE
    /\ calledCancelled = FALSE /\ copyFailed = FALSE /\ failures = 0
    /\ source = {} /\ dirs = {} /\ destFiles = {} /\ archives = {} /\ remoteFiles = {}
    /\ idx = 0 /\ pruneThreshold = 0 /\ result = NewResult /\ pruneResult = NewPruneResult
    /\ ridx = 1 /\ filesToArchive = {} /\ retErr = "running"

\* backupFileToAllDestinations reads both lists
ResolveDestinations ==
    /\ pc = "start"
    /\ archivePaths' = MergedEntries(cfg.backupPath, cfg.backupPaths)
    /\ pending' = MergedEntries(cfg.remoteBackup, cfg.remoteBackups)
    /\ pc' = "copy"
    /\ UNCHANGED <<cfg, mtime, calledCancelled, copyFailed, failures, now, ctxDone,
                   effects, idx, pruneThreshold, result, pruneResult, successChan,
                   errChan, ridx, filesToArchive, retErr>>

\* the file is written to the next local destination of the list
WriteDestination ==
    /\ pc = "copy"
    /\ Len(successChan) < Len(archivePaths)
    /\ successChan' = Append(successChan, archivePaths[Len(successChan) + 1])
    /\ UNCHANGED <<cfg, mtime, calledCancelled, copyFailed, failures, now, ctxDone,
                   effects, pc, idx, pruneThreshold, result, pruneResult, pending,
                   errChan, ridx, archiving, retErr>>

\* the file is sent to the next remote destination of the list
SendRemote ==
    /\ pc = "copy"
    /\ Len(successChan) = Len(archivePaths)
    /\ Len(errChan) < Len(pending)
    /\ errChan' = Append(errChan, pending[Len(errChan) + 1])
    /\ UNCHANGED <<cfg, mtime, calledCancelled, copyFailed, failures, now, ctxDone,
                   effects, pc, idx, pruneThreshold, result, pruneResult, pending,
                   successChan, ridx, archiving, retErr>>

NextLists == ResolveDestinations \/ WriteDestination \/ SendRemote

SpecLists == InitLists /\ [][NextLists]_vars

\* position of the first occurrence of e in the list (0 if there is none)
FirstIndex(list, e) ==
    IF \E k \in 1..Len(list) : list[k] = e
    THEN CHOOSE k \in 1..Len(list) : list[k] = e /\ \A m \in 1..(k - 1) : list[m] # e
    ELSE 0

NoDuplicates(s) == \A i, j \in 1..Len(s) : i # j => s[i] # s[j]

\* merged is single (when non-empty) followed by the entries of list in the
\* order of their first occurrences, without empty strings and repetitions
MergedInOrder(merged, single, list) ==
    LET first == IF single # "" THEN 1 ELSE 0
    IN /\ NoDuplicates(merged)
       /\ {merged[k] : k \in 1..Len(merged)}
             = ({single} \cup {list[k] : k \in 1..Len(list)}) \ {""}
       /\ first = 1 => merged[1] = single
       /\ \A i, j \in (first + 1)..Len(merged) :
             i < j => FirstIndex(list, merged[i]) < FirstIndex(list, merged[j])

\* C24: the resolved local and remote lists are the single value (when
\* non-empty) followed by the list entries in list order, without empty
\* strings and with every destination once, and no destination is written
\* or sent to twice for the file.
C24_MergedDestinationLists ==
    pc = "copy" =>
        /\ MergedInOrder(archivePaths, cfg.backupPath, cfg.backupPaths)
        /\ MergedInOrder(pending, cfg.remoteBackup, cfg.remoteBackups)
        /\ NoDuplicates(successChan) /\ NoDuplicates(errChan)

\* the single value is repeated in the list behind another entry, both for
\* the local and the remote destinations, and the file has been copied to all
C24_Witness ==
    /\ pc = "copy"
    /\ cfg.backupPath = "x" /\ cfg.backupPaths = <<"y", "x">>
    /\ cfg.remoteBackup = "" /\ cfg.remoteBackups = <<"y", "y">>
    /\ successChan = <<"x", "y">> /\ errChan = <<"y">>

\* ------------------------------------------------------------------ remote transport
\* utils.ExecuteRemoteCopy as a sequence of calls. In this specification
\* source holds the local paths that exist, remoteFiles the processes
\* started so far as [name, args] records, and retErr the return of the
\* latest call. Strings are sequences of words, so that what a shell would
\* make of a command line can be told.
LocalPaths == {<<"/backup/app.log">>, <<"/backup/gone.log">>}
Destinations ==
    {<<>>,
     <<"host:/path">>,
     <<"user@host:/path">>,
     <<"user@host:/path", ";", "rm", "-rf", "/">>}

ScpCommand_ViaShell(sourcePath, destination) ==
    [name |-> "sh", args |-> <<"-c", <<"scp">> \o sourcePath \o destination>>]

\* exec.Command("scp", sourcePath, destination)
ScpCommand(sourcePath, destination) ==
    [name |-> "scp", args |-> <<sourcePath, destination>>]

RECURSIVE Programs(_, _)
\* the programs a shell runs for a command line: the first word of the
\* line and the first word after every ";" (atStart: the next word is one)
Programs(line, atStart) ==
    IF line = <<>> THEN {}
    ELSE IF Head(line) = ";" THEN Programs(Tail(line), TRUE)
    ELSE (IF atStart THEN {Head(line)} ELSE {}) \cup Programs(Tail(line), FALSE)

\* the programs that run when the process cmd is started: the named
\* program, and for sh -c those of its command line
Executes(cmd) ==
    IF cmd.name = "sh" /\ cmd.args[1] = "-c"
    THEN {"sh"} \cup Programs(cmd.args[2], TRUE)
    ELSE {cmd.name}

\* utils.ExecuteRemoteCopy(sourcePath, destination), the transfer succeeding
\* (ok) or failing once scp has been started
RemoteCopyCall ==
    /\ pc = "idle"
    /\ \E sourcePath \in LocalPaths, destination \in Destinations, ok \in BOOLEAN :
         /\ pending' = <<sourcePath, destination>>
         /\ IF sourcePath \notin source
            THEN retErr' = "source file does not exist" /\ remoteFiles' = remoteFiles
            ELSE IF destination = <<>>
            THEN retErr' = "destination cannot be empty" /\ remoteFiles' = remoteFiles
            ELSE /\ remoteFiles' = remoteFiles \cup {ScpCommand(sourcePath, destination)}
                 /\ retErr' = IF ok THEN "nil" ELSE "scp failed"
    /\ UNCHANGED <<cfg, mtime, calledCancelled, copyFailed, failures, now, ctxDone,
                   source, dirs, destFiles, archives, pc, idx, pruneThreshold, result,
                   pruneResult, successChan, errChan, ridx, archiving>>

InitRemoteCopy ==
    /\ source \in SUBSET LocalPaths
    /\ remoteFiles = {} /\ pending = <<>> /\ retErr = "running" /\ pc = "idle"
    /\ cfg = [mode |-> "copy"] /\ mtime = <<>> /\ now = StartTime /\ ctxDone = FALSE
    /\ calledCancelled = FALSE /\ copyFailed = FALSE /\ failures = 0
    /\ dirs = {} /\ destFiles = {} /\ archives = {}
    /\ idx = 0 /\ pruneThreshold = 0 /\ result = NewResult /\ pruneResult = NewPruneResult
    /\ successChan = <<>> /\ errChan = <<>> /\ ridx = 1
    /\ filesToArchive = {} /\ archivePaths = <<>>

SpecRemoteCopy == InitRemoteCopy /\ [][RemoteCopyCall]_vars

\* C25: every process ExecuteRemoteCopy starts is scp with exactly the two
\* arguments (source path, destination), so scp is the only program that
\* runs whatever the destination string holds; and a call with a source
\* path that does not exist or an empty destination returns an error and
\* starts no process.
C25_RemoteCopyFailsClosed ==
    /\ [](\A cmd \in remoteFiles :
            /\ cmd.name = "scp" /\ Len(cmd.args) = 2
            /\ cmd.args[1] \in source /\ cmd.args[2] \in Destinations \ {<<>>}
            /\ Executes(cmd) = {"scp"})
    /\ [][LET sourcePath == pending'[1]
              destination == pending'[2]
          IN IF sourcePath \notin source \/ destination = <<>>
             THEN remoteFiles' = remoteFiles /\ retErr' \notin {"nil", "running"}
             ELSE /\ remoteFiles' = remoteFiles \cup {[name |-> "scp", args |-> pending']}
                  /\ retErr' \in {"nil", "scp failed"}]_vars

\* the destination with "; rm -rf /" has been handed to scp as one argument,
\* and the latest call, with an empty destination, has been refused
C25_Witness ==
    /\ \E cmd \in remoteFiles : Len(cmd.args[2]) = 5 /\ cmd.args[2][3] = "rm"
    /\ pending[2] = <<>> /\ pending[1] \in source
    /\ retErr = "destination cannot be empty"

\* ------------------------------------------------------------------ backup disabled
\* RunBackup with EnableBackup = false: the backup phase is skipped
NoBackupConfigs == {c \in Configs : ~c.enableBackup}

InitNoBackup == InitWith(NoBackupConfigs)

NextNoBackup ==
    \/ Start
    \/ PrePrune
    \/ PruneWalk
    \/ Cancel
    \/ Tick

SpecNoBackup == InitNoBackup /\ [][NextNoBackup]_vars

\* the files RunBackup has deleted
Deleted == Files \ source

\* neither the target root nor the file f met an access error in the prune walk
Accessible(f) ==
    /\ ~HasError(result, SrcPath(RootEntry), "access")
    /\ ~HasError(result, SrcPath(f), "access")

\* C26 as stated: with backup disabled, RunBackup creates no backup
\* directory and copies nothing, and when it has returned every accessible
\* file older than the cutoff is deleted, BackedUp is 0 and Pruned is the
\* number of files deleted.
C26_NoBackupPrunesAll ==
    /\ [](~cfg.enableBackup =>
            /\ destFiles = {} /\ archives = {} /\ remoteFiles = {}
            /\ pc = "done" =>
                 /\ \A f \in Qualifying : Accessible(f) => f \in Deleted
                 /\ result.BackedUp = 0
                 /\ result.Pruned = Cardinality(Deleted))
    /\ [][~cfg.enableBackup => dirs' = dirs]_vars

\* C26 amended: with backup disabled, RunBackup creates no backup directory,
\* copies nothing and returns BackedUp = 0; when it is not a dry run, Pruned
\* is the number of files deleted, also when the run ends early; and a run
\* that is not a dry run and returns nil has deleted every accessible file
\* older than the cutoff except those whose deletion failed, for each of
\* which a 'prune' error is recorded.
C26_NoBackupPrunesUnlessFailed ==
    /\ [](~cfg.enableBackup =>
            /\ destFiles = {} /\ archives = {} /\ remoteFiles = {}
            /\ result.BackedUp = 0
            /\ (pc = "done" /\ ~cfg.dryRun) => result.Pruned = Cardinality(Deleted)
            /\ (pc = "done" /\ ~cfg.dryRun /\ retErr = "nil") =>
                 \A f \in Qualifying :
                    Accessible(f) =>
                       (f \in Deleted \/ HasError(result, SrcPath(f), "prune")))
    /\ [][~cfg.enableBackup => dirs' = dirs]_vars

\* a run with backup disabled has returned nil after deleting one old file
\* and failing to delete the other
C26_Witness ==
    /\ ~cfg.enableBackup /\ ~cfg.dryRun /\ pc = "done" /\ retErr = "nil"
    /\ Qualifying = Files /\ Cardinality(Deleted) = 1 /\ result.Pruned = 1
    /\ \E f \in Files : Accessible(f) /\ HasError(result, SrcPath(f), "prune")

\* ------------------------------------------------------------------ service loop
\* main: the signal handler goroutine and the loop that runs RunBackup and
\* sleeps. In this specification cfg holds the --once flag and the run
\* interval, pc the position of the main goroutine ("loop": at the select
\* at the top of the loop, "cycle": inside RunBackup, "sleep": at the select
\* after a cycle, "exited"), successChan the signal channel (buffer of one),
\* ctxDone whether the handler has called cancel, idx the entries the
\* running cycle has walked, now the time left of the running sleep, retErr
\* the error of the latest cycle, failures the number of cycles started so
\* far, copyFailed whether a shutdown signal has been delivered, and
\* calledCancelled whether cancel had been called before the first cycle
\* could start.
MaxCycles == 2
MaxInterval == 2

Signals == {"SIGTERM", "SIGINT"}

InitService ==
    /\ cfg \in [once : BOOLEAN, runInterval : 1..MaxInterval]
    /\ pc = "loop" /\ ctxDone = FALSE /\ successChan = <<>>
    /\ idx = 0 /\ now = 0 /\ retErr = "nil" /\ failures = 0
    /\ copyFailed = FALSE /\ calledCancelled = FALSE
    /\ mtime = <<>> /\ source = {} /\ dirs = {} /\ destFiles = {} /\ archives = {}
    /\ remoteFiles = {} /\ pruneThreshold = 0 /\ result = NewResult
    /\ pruneResult = NewPruneResult /\ pending = {} /\ errChan = <<>> /\ ridx = 1
    /\ filesToArchive = {} /\ archivePaths = <<>>

\* the operating system delivers SIGTERM or SIGINT: signal.Notify puts it
\* into sigChan unless the buffer is full
Signal ==
    /\ pc # "exited"
    /\ successChan = <<>>
    /\ \E sig \in Signals : successChan' = <<sig>>
    /\ copyFailed' = TRUE
    /\ UNCHANGED <<cfg, mtime, calledCancelled, failures, now, ctxDone, effects, pc, idx,
                   pruneThreshold, result, pruneResult, pending, errChan, ridx,
                   archiving, retErr>>

\* the handler goroutine: sig := <-sigChan; cancel()
HandleSignal ==
    /\ pc # "exited"
    /\ ~ctxDone
    /\ successChan # <<>>
    /\ successChan' = <<>>
    /\ ctxDone' = TRUE
    /\ calledCancelled' = (failures = 0 /\ pc = "loop")
    /\ UNCHANGED <<cfg, mtime, copyFailed, failures, now, effects, pc, idx,
                   pruneThreshold, result, pruneResult, pending, errChan, ridx,
                   archiving, retErr>>

LoopTop_NoPoll ==
    /\ pc = "loop"
    /\ failures < MaxCycles
    /\ pc' = "cycle" /\ idx' = 0 /\ retErr' = "running" /\ failures' = failures + 1
    /\ UNCHANGED <<cfg, mtime, calledCancelled, copyFailed, now, ctxDone, effects,
                   pruneThreshold, result, pruneResult, replication, archiving>>

\* the select at the top of the loop: return when the context is done,
\* otherwise (default) call RunBackup
LoopTop ==
    /\ pc = "loop"
    /\ IF Polled
       THEN pc' = "exited" /\ UNCHANGED <<idx, retErr, failures>>
       ELSE /\ failures < MaxCycles
            /\ pc' = "cycle" /\ idx' = 0 /\ retErr' = "running" /\ failures' = failures + 1
    /\ UNCHANGED <<cfg, mtime, calledCancelled, copyFailed, now, ctxDone, effects,
                   pruneThreshold, result, pruneResult, replication, archiving>>

\* main after RunBackup returned err: exit with --once, otherwise start the sleep
CycleReturned(err) ==
    /\ retErr' = err
    /\ IF cfg.once
       THEN pc' = "exited" /\ now' = now
       ELSE pc' = "sleep" /\ now' = cfg.runInterval

\* the running RunBackup up to its next poll: it returns the cancellation
\* error when the context is done, and otherwise walks the next entry,
\* returns nil after the last one, or returns another error
CycleStep ==
    /\ pc = "cycle"
    /\ IF Polled
       THEN CycleReturned("canceled") /\ idx' = idx
       ELSE \/ idx < MaxFiles /\ idx' = idx + 1 /\ UNCHANGED <<pc, now, retErr>>
            \/ idx = MaxFiles /\ CycleReturned("nil") /\ idx' = idx
            \/ CycleReturned("threshold") /\ idx' = idx
    /\ UNCHANGED <<cfg, mtime, calledCancelled, copyFailed, failures, ctxDone, effects,
                   pruneThreshold, result, pruneResult, replication, archiving>>

\* the select after a cycle takes the case of ctx.Done(): return
SleepInterrupted ==
    /\ pc = "sleep"
    /\ Polled
    /\ pc' = "exited"
    /\ UNCHANGED <<cfg, mtime, calledCancelled, copyFailed, failures, now, ctxDone,
                   effects, idx, pruneThreshold, result, pruneResult, replication,
                   archiving, retErr>>

\* the select after a cycle takes the case of time.After: next iteration
SleepElapsed ==
    /\ pc = "sleep"
    /\ now = 0
    /\ pc' = "loop"
    /\ UNCHANGED <<cfg, mtime, calledCancelled, copyFailed, failures, now, ctxDone,
                   effects, idx, pruneThreshold, result, pruneResult, replication,
                   archiving, retErr>>

\* a second of the run interval passes
TimePasses ==
    /\ pc = "sleep"
    /\ now > 0
    /\ now' = now - 1
    /\ UNCHANGED <<cfg, mtime, calledCancelled, copyFailed, failures, ctxDone, effects,
                   pc, idx, pruneThreshold, result, pruneResult, replication,
                   archiving, retErr>>

MainStep == LoopTop \/ CycleStep \/ SleepInterrupted \/ SleepElapsed

NextService == MainStep \/ TimePasses \/ Signal \/ HandleSignal

SpecService == InitService /\ [][NextService]_vars

\* the Go scheduler runs a goroutine that can take a step: the main
\* goroutine and the signal handler
SpecServiceLive == SpecService /\ WF_vars(MainStep) /\ WF_vars(HandleSignal)

\* the main goroutine calls RunBackup in this step
StartsCycle == pc = "loop" /\ pc' = "cycle"

SamePeriod(t1, t2, groupBy) ==
    CASE groupBy = "weekly" -> Calendar[t1].weekly = Calendar[t2].weekly
      [] groupBy = "monthly" -> Calendar[t1].monthly = Calendar[t2].monthly
      [] OTHER -> t1 = t2

\* the archive file a holds an entry with the name and the content of e
Contains(a, e) ==
    \E k \in 1..Len(a.content.entries) :
        a.content.entries[k] = [name |-> e.name, body |-> e.body]

EntriesOf(a) == {a.content.entries[k] : k \in 1..Len(a.content.entries)}

\* the source file of the entry e is gone from the target tree
Pruned(e) == ~Exists(source, Join(TargetFolder, e.name))

\* this step is a CreateArchive call that returns an archive
ArchiveCreated == pc = "idle" /\ pc' = "created"

\* the archive files of the period of the running call
OfThisPeriod == {a \in archives : SamePeriod(a.modTime, now, cfg.groupBy)}

BackupPhase == {"start", "walk", "local", "remote", "acollect", "acreate", "aremote"}
PrunePhase == {"preprune", "prune"}

\* the step taken at this position ends the backup phase with all its work
\* done: the walk is at its last entry (or the target root could not be read,
\* so that it has no entries), every copy goroutine of the last file has
\* ended, and the last archive or remote destination is the one at hand
BackupPhaseFinishing ==
    CASE pc = "start" -> ~cfg.enableBackup
      [] pc = "walk" -> idx = MaxFiles \/ idx = RootEntry
      [] pc = "local" -> idx = MaxFiles /\ pending = {}
      [] pc = "remote" -> idx = MaxFiles /\ pending = {} /\ ridx = cfg.numRemotes
      [] pc = "acollect" -> idx = MaxFiles \/ idx = RootEntry
      [] pc = "acreate" -> ridx = cfg.numDests
      [] pc = "aremote" -> ridx = cfg.numRemotes
      [] OTHER -> FALSE

\* C29: a file is deleted only by the prune walk; the prune phase begins
\* only when the backup phase has finished for all entries (the walk, or in
\* archive mode the archive creations and remote pushes) and never gives way
\* to the backup phase again; and a backup phase that ends with a
\* cancellation, threshold or other error ends the run without a prune phase
\* and without a deletion.
C29_PruneAfterBackupPhase ==
    [][/\ source' # source => (pc = "prune" /\ retErr = "running")
       /\ pc' = "prune" => pc \in PrunePhase
       /\ pc \in PrunePhase => pc' \in PrunePhase \cup {"done"}
       /\ (pc \in BackupPhase /\ pc' = "preprune") =>
             (BackupPhaseFinishing /\ retErr' = "running" /\ pending' = {})
       /\ (pc \in BackupPhase /\ pc' \notin BackupPhase \cup PrunePhase) =>
             /\ pc' = "done"
             /\ retErr' \in {"canceled", "threshold", "mkdir", "archive"}
             /\ source' = source]_vars

\* an archive-mode run has pushed its archive to a remote destination and
\* then deleted every file
C29_Witness ==
    /\ pc = "done" /\ retErr = "nil" /\ cfg.mode = "archive" /\ cfg.enableBackup
    /\ source = {} /\ archives # {} /\ remoteFiles # {}
    /\ result.Pruned = MaxFiles /\ result.BackedUp = MaxFiles

\* ------------------------------------------------------------------ one file's replication
\* real per-file runs with every local destination and one remote destination
\* more than the configurations of Spec have
ReplicationConfigs ==
    [enableBackup : {TRUE}, mode : {"copy", "gzip"}, dryRun : {FALSE}, threshold : {0},
     numDests : {MaxDests}, numRemotes : {MaxRemotes + 1}]

InitReplication == InitWith(ReplicationConfigs)

NextReplication ==
    \/ Start
    \/ BackupWalk
    \/ \E d \in 1..MaxDests : LocalCopy(d)
    \/ Collect
    \/ RemoteCopy
    \/ PrePrune
    \/ PruneWalk
    \/ Cancel
    \/ Tick

SpecReplication == InitReplication /\ [][NextReplication]_vars

\* every local-copy goroutine of the file at hand has delivered its outcome
LocalAttemptsFinished ==
    pending = {} /\ Len(successChan) + Len(errChan) = cfg.numDests

\* C30: within one file's replication the remote loop is entered only when
\* every local-destination copy attempt of that file has finished, succeeded
\* or failed, and no local copy is made while the remote loop runs; the
\* remote copies of the file are then made one per step, the first to the
\* first remote destination and each further one to the next destination of
\* the remote list.
C30_RemotesAfterLocalsInOrder ==
    [][/\ (pc # "remote" /\ pc' = "remote") =>
             (pc = "local" /\ LocalAttemptsFinished /\ ridx' = 1 /\ idx' = idx)
       /\ pc = "remote" =>
             /\ LocalAttemptsFinished
             /\ destFiles' = destFiles /\ pending' = {}
             /\ pc' = "remote" => (idx' = idx /\ ridx' \in {ridx, ridx + 1})
       /\ Received # {} =>
             /\ pc = "remote"
             /\ Received = {<<RemoteSource, GetRemoteBackups(cfg)[ridx]>>}
             /\ pc' = "remote" => ridx' = ridx + 1
       /\ (RemoteAttempt /\ ridx < cfg.numRemotes) => (pc' = "remote" /\ ridx' = ridx + 1)]_vars

\* one local copy of the file failed, the other one succeeded, the first
\* remote destination has received the file and the second one is at hand
C30_Witness ==
    /\ pc = "remote" /\ ridx = 2 /\ cfg.numDests >= 2 /\ cfg.numRemotes >= 2
    /\ Len(successChan) >= 1 /\ Len(errChan) = 1
    /\ <<RemoteSource, GetRemoteBackups(cfg)[1]>> \in remoteFiles

\* ------------------------------------------------------------------ the Result and the workers
\* some local-copy goroutine of the file at hand has not yet returned
WorkersInFlight == pending # {}

\* C31: a step of a local-copy worker leaves the Result as it is and delivers
\* its outcome through one of the two channels; the Result changes only in
\* steps of the orchestrator taken when no worker is in flight, that is after
\* wg.Wait has returned; and the walk neither moves to another entry nor
\* starts workers for another file while a worker of the file at hand is in
\* flight.
C31_ResultOnlyOnOrchestrator ==
    [][/\ result' # result => (~WorkersInFlight /\ pending' = {})
       /\ pending' # pending =>
             \/ /\ pc = "local" /\ pc' = "local" /\ idx' = idx /\ result' = result
                /\ \E d \in pending :
                      /\ pending' = pending \ {d}
                      /\ \/ successChan' = Append(successChan, d) /\ errChan' = errChan
                         \/ errChan' = Append(errChan, d) /\ successChan' = successChan
             \/ /\ pc = "walk" /\ pc' = "local" /\ ~WorkersInFlight
                /\ idx' = idx /\ result' = result
                /\ successChan' = <<>> /\ errChan' = <<>>
       /\ WorkersInFlight => (idx' = idx /\ pc' = pc /\ pc = "local")
       /\ (successChan' # successChan \/ errChan' # errChan) =>
             (pc = "local" \/ pc' = "local" \/ ~WorkersInFlight)]_vars

\* the first file has been counted; of the second file one worker has
\* delivered its success and the other one is still in flight
C31_Witness ==
    /\ pc = "local" /\ idx = 2 /\ cfg.numDests >= 2
    /\ Cardinality(pending) = 1 /\ Len(successChan) = 1 /\ Len(errChan) = 0
    /\ result.Succeeded = 1 /\ result.BackedUp = 1

\* ------------------------------------------------------------------ the completion barrier
\* real per-file runs with every local destination and no remote destination
BarrierConfigs ==
    [enableBackup : {TRUE}, mode : {"copy"}, dryRun : {FALSE}, threshold : {0},
     numDests : {MaxDests}, numRemotes : {0}]

InitBarrier == InitWith(BarrierConfigs)

NextBarrier ==
    \/ Start
    \/ BackupWalk
    \/ \E d \in 1..MaxDests : LocalCopy(d)
    \/ Collect
    \/ PrePrune
    \/ PruneWalk
    \/ Cancel
    \/ Tick

SpecBarrier == InitBarrier /\ [][NextBarrier]_vars

\* the goroutines of the running program are scheduled fairly: a worker that
\* can run to its end does so, and so does the orchestrator once wg.Wait returns
SpecBarrierLive ==
    SpecBarrier /\ WF_vars(\E d \in 1..MaxDests : LocalCopy(d)) /\ WF_vars(Collect)

\* the destinations whose worker has delivered its outcome
Delivered == {successChan[k] : k \in 1..Len(successChan)} \cup {errChan[k] : k \in 1..Len(errChan)}

\* C32: while a file is replicated in per-file mode, every worker still in
\* flight can deliver its outcome (its send does not block), the workers
\* that have returned have delivered exactly one outcome each, a success or
\* an error, so that when the barrier releases the collected successes and
\* errors number as many as the configured local destinations; and the
\* barrier does release: the replication always leaves the waiting position.
C32_EveryWorkerDeliversOnce ==
    /\ [](pc = "local" =>
            /\ \A d \in pending : ENABLED LocalCopy(d)
            /\ Delivered = (1..cfg.numDests) \ pending
            /\ Len(successChan) + Len(errChan) = Cardinality(Delivered)
            /\ WaitGroupDone => Len(successChan) + Len(errChan) = cfg.numDests)
    /\ (pc = "local" ~> pc # "local")

\* the barrier has released with one success and one error collected
C32_Witness ==
    /\ pc = "local" /\ WaitGroupDone /\ cfg.numDests = 2
    /\ Len(successChan) = 1 /\ Len(errChan) = 1

\* ------------------------------------------------------------------ cancellation during a replication
\* the context is cancelled while the local copies of the file at hand are
\* in flight or have just ended
CancelledDuringLocalCopies == pc = "local" /\ ctxDone

\* every local copy of the file at hand that succeeded is on disk, complete
LocalCopiesOnDisk ==
    \A k \in 1..Len(successChan) : ArtifactAt(GetDestinationPath(successChan[k], idx, cfg))

\* C33: a cancellation does not stop the local-copy workers: each worker in
\* flight can still run to its end, and none of their steps returns from the
\* run.  With remote destinations configured the orchestrator then returns
\* the cancellation error at the poll before the first remote copy (or, when
\* every local copy failed, when RunBackup finds the context cancelled):
\* nothing is sent to a remote destination, the Result is left as it was
\* before the file, the file stays in the source, and the local copies that
\* succeeded stay on disk.
C33_WorkersIgnoreCancellation ==
    /\ [](CancelledDuringLocalCopies => \A d \in pending : ENABLED LocalCopy(d))
    /\ [][CancelledDuringLocalCopies =>
             /\ result' = result /\ source' = source /\ remoteFiles' = remoteFiles
             /\ idx' = idx
             /\ WorkersInFlight => pc' = "local"
             /\ pc' = "remote" => (ridx' = 1 /\ Len(successChan') > 0)
             /\ pc' \notin {"local", "remote"} =>
                   (pc' = "done" /\ retErr' = "canceled" /\ Len(successChan) = 0)]_vars
    /\ [][(pc = "remote" /\ ridx = 1 /\ ctxDone) =>
             /\ pc' = "done" /\ retErr' = "canceled"
             /\ result' = result /\ idx' = idx /\ idx \in source'
             /\ remoteFiles' = remoteFiles /\ destFiles' = destFiles
             /\ LocalCopiesOnDisk]_vars

\* the run was cancelled while the first file was being copied: it returned
\* the cancellation error with both copies of the file on disk, nothing
\* counted, nothing sent and nothing deleted
C33_Witness ==
    /\ pc = "done" /\ retErr = "canceled" /\ ~calledCancelled /\ cfg.numRemotes > 0
    /\ idx \in Files /\ Len(successChan) = cfg.numDests /\ LocalCopiesOnDisk
    /\ result.BackedUp = 0 /\ result.Succeeded = 0 /\ result.Failed = 0
    /\ remoteFiles = {} /\ source = Files

\* ------------------------------------------------------------------ archive-mode runs
\* every configuration with backup enabled in archive mode
ArchiveModeConfigs == {c \in Configs : c.enableBackup /\ c.mode = "archive"}

InitArchiveMode == InitWith(ArchiveModeConfigs)

NextArchiveMode ==
    \/ Start
    \/ ArchiveWalk
    \/ ArchiveCreate
    \/ ArchiveRemote
    \/ PrePrune
    \/ PruneWalk
    \/ Cancel
    \/ Tick

SpecArchiveMode == InitArchiveMode /\ [][NextArchiveMode]_vars

\* the complete archive of this run under the backup root d
ArchiveAt(d) == [root |-> d, content |-> "full", files |-> filesToArchive] \in archives

\* the 'archive' errors recorded so far
ArchiveErrors == SelectSeq(result.Errors, LAMBDA e : e[2] = "archive")

\* C34: in archive mode the archive-creation loop does not poll the
\* context: with the context cancelled after the collection walk, the
\* archive of every local destination is still attempted, in turn, and the
\* loop is left only after the last destination.  With no remote destination
\* and at least one archive created, the end of the loop counts every
\* collected file in BackedUp and Succeeded, and the cancellation is observed
\* next, at the check before the prune phase: the run returns the
\* cancellation error with these counts, every created archive on disk and
\* no source file deleted.
C34_ArchivesCreatedDespiteCancel ==
    /\ [](pc = "acreate" => ENABLED ArchiveCreate)
    /\ [][(pc = "acreate" /\ ctxDone) =>
             /\ retErr' # "canceled"
             /\ Len(archivePaths') + Len(ArchiveErrors') = ridx
             /\ IF ridx < cfg.numDests
                THEN pc' = "acreate" /\ ridx' = ridx + 1
                ELSE IF Len(archivePaths') = 0
                     THEN pc' = "done" /\ retErr' = "archive"
                     ELSE IF cfg.numRemotes > 0
                          THEN pc' = "aremote"
                          ELSE /\ pc' = "preprune"
                               /\ result'.BackedUp = Cardinality(filesToArchive)
                               /\ result'.Succeeded = Cardinality(filesToArchive)]_vars
    /\ [][(pc = "preprune" /\ ctxDone) =>
             /\ pc' \in {"preprune", "done"}
             /\ result' = result /\ effects' = effects
             /\ pc' = "done" =>
                   /\ retErr' = "canceled"
                   /\ source' = Files
                   /\ \A k \in 1..Len(archivePaths) : ArchiveAt(archivePaths[k])]_vars

\* the context is cancelled, the archive of the first destination exists
\* and the archive of the second destination is about to be attempted
C34_Witness ==
    /\ pc = "acreate" /\ ctxDone /\ ~calledCancelled /\ cfg.numRemotes = 0
    /\ ridx = 2 /\ archivePaths = <<1>> /\ ArchiveAt(1)
    /\ filesToArchive = Files

\* ------------------------------------------------------------------ the breaker and the processing order
\* real per-file runs with the breaker on and one local destination
BreakerConfigs ==
    [enableBackup : {TRUE}, mode : {"copy", "gzip"}, dryRun : {FALSE},
     threshold : Thresholds \ {0}, numDests : {1}, numRemotes : {0}]

InitBreaker == InitWith(BreakerConfigs)

SpecBreaker == InitBreaker /\ [][NextBarrier]_vars

\* the file at hand is the first qualifying file the walk has reached
FirstQualifying == idx \in Qualifying /\ \A f \in Qualifying : idx <= f

\* the orchestrator finds every local copy of the file at hand failed, and
\* the context is not cancelled
BackupFailureFound ==
    pc = "local" /\ WaitGroupDone /\ AllLocalBackupsFailed /\ ~ctxDone /\ ~ctxDone'

\* nothing has been written for a file the walk has not reached
LaterFilesUntouched == \A a \in destFiles : a.path[3] <= idx

\* C35: with a threshold T, 0 < T < 100, a backup failure of the first
\* qualifying file the walk processes gives a failure rate of 100 percent:
\* the run returns the threshold error in that step, with the failure
\* recorded, no file backed up, no later file attempted and no file deleted;
\* the same failure after enough successes, where the rate does not exceed
\* T, lets the walk go on.
C35_FirstFailureTripsBreaker ==
    [][(BackupFailureFound /\ cfg.threshold > 0 /\ cfg.threshold < 100) =>
          /\ result'.Failed = result.Failed + 1
          /\ result'.Errors = Append(result.Errors, <<SrcPath(idx), "backup">>)
          /\ FirstQualifying =>
                /\ RateEQ(FailureRate(result'), 100)
                /\ pc' = "done" /\ retErr' = "threshold"
                /\ result'.Succeeded = 0 /\ result'.BackedUp = 0
                /\ idx' = idx /\ source' = Files /\ LaterFilesUntouched'
          /\ ~RateGT(FailureRate(result'), cfg.threshold) =>
                (retErr' = "running" /\ pc' \in {"walk", "preprune"})]_vars

\* the first of two qualifying files failed to back up: the run has
\* returned the threshold error without attempting the second one
C35_Witness ==
    /\ pc = "done" /\ retErr = "threshold" /\ idx = 1 /\ Qualifying = Files
    /\ MaxFiles >= 2 /\ destFiles = {} /\ source = Files
    /\ result.Failed = 1 /\ result.Succeeded = 0 /\ pruneResult = NewPruneResult

\* ------------------------------------------------------------------ inaccessible entries
\* real runs with the breaker on, one local destination and no remote one
AccessConfigs ==
    [enableBackup : {TRUE}, mode : Modes, dryRun : {FALSE},
     threshold : Thresholds \ {0}, numDests : {1}, numRemotes : {0}]

InitAccess == InitWith(AccessConfigs)

NextAccess ==
    \/ Start
    \/ BackupWalk
    \/ \E d \in 1..MaxDests : LocalCopy(d)
    \/ Collect
    \/ ArchiveWalk
    \/ ArchiveCreate
    \/ PrePrune
    \/ PruneWalk
    \/ Cancel
    \/ Tick

SpecAccess == InitAccess /\ [][NextAccess]_vars

\* the operation of this step failed (in a walk callback of the backup phase
\* the only operation that can fail is the access to the entry)
OperationFailed == failures' # failures

\* the walk goes on to the next entry, or has no further entry to visit
WalkGoesOn(ended) ==
    \/ pc' = pc /\ idx' = idx + 1
    \/ pc' \in ended /\ (idx = MaxFiles \/ idx = RootEntry)

Last(seq) == seq[Len(seq)]

\* C36: an entry that cannot be accessed in the backup walk or the archive
\* collection walk appends one 'access' error for its path to the Result
\* and adds one to Failed, and the walk goes on; in the prune walk the same
\* is recorded in the pruner's result, which RunBackup adds to the Result
\* when the walk has ended.  The step never returns the threshold error: a
\* run returns it only in a step that recorded a 'backup' or a 'prune' error.
C36_AccessErrorRecordedWalkContinues ==
    [][/\ (pc \in {"walk", "acollect"} /\ OperationFailed) =>
             /\ result' = [result EXCEPT !.Errors = Append(@, <<SrcPath(idx), "access">>),
                                         !.Failed = @ + 1]
             /\ retErr' = "running"
             /\ WalkGoesOn({"preprune", "acreate"})
       /\ (pc = "prune" /\ OperationFailed) =>
             /\ pruneResult'.Failed = pruneResult.Failed + 1
             /\ Len(pruneResult'.Errors) = Len(pruneResult.Errors) + 1
             /\ Last(pruneResult'.Errors)[1] = SrcPath(idx)
             /\ Last(pruneResult'.Errors)[2] \in {"access", "prune"}
             /\ Last(pruneResult'.Errors)[2] = "access" =>
                   /\ source' = source
                   /\ WalkGoesOn({"done"})
                   /\ pc' = "done" =>
                         /\ retErr' = "nil"
                         /\ result'.Failed = result.Failed + pruneResult'.Failed
                         /\ result'.Errors = result.Errors \o pruneResult'.Errors
       /\ (retErr = "running" /\ retErr' = "threshold") =>
             /\ Len(result'.Errors) > Len(result.Errors)
             /\ Last(result'.Errors)[2] \in {"backup", "prune"}]_vars

\* with the breaker on, the first file could not be accessed in the backup
\* walk: the error is recorded, the second file was backed up and the run
\* ended without an error
C36_Witness ==
    /\ pc = "done" /\ retErr = "nil" /\ cfg.threshold > 0 /\ cfg.mode = "copy"
    /\ result.Errors = << <<SrcPath(1), "access">> >> /\ result.Failed = 1
    /\ result.BackedUp = 1 /\ result.Succeeded = 1
    /\ [path |-> GetDestinationPath(1, 2, cfg), content |-> "full"] \in destFiles

\* ------------------------------------------------------------------ backup roots
\* every configured local backup root exists as a directory
AllRootsExist == \A d \in 1..cfg.numDests : d \in dirs

ArchiveOrderConfigs ==
    [enableBackup : {TRUE}, mode : {"archive"}, dryRun : {FALSE}, threshold : {0},
     numDests : 1..MaxDests, numRemotes : {MaxRemotes + 1}]

InitArchiveOrder == InitWith(ArchiveOrderConfigs)

SpecArchiveOrder == InitArchiveOrder /\ [][NextArchiveMode]_vars

\* a step of the run, not one of the environment (signal, wall clock)
RunStep == ctxDone' = ctxDone /\ now' = now

\* the entry e met an access error in a walk of the backup phase
AccessError(r, e) == \E k \in 1..Len(r.Errors) : r.Errors[k] = <<SrcPath(e), "access">>

\* the qualifying files the collection walk could read
Collectable(r) ==
    IF AccessError(r, RootEntry) THEN {}
    ELSE {f \in Qualifying : ~AccessError(r, f)}

\* C38: in archive mode the target tree is walked once, and the walk ends
\* with every qualifying file it could read collected; then one archive of
\* the collected files is attempted per local destination, one per step in
\* destination-list order, and nothing is sent before the last attempt;
\* then the first archive that was created is sent to each remote
\* destination, one per step in remote-list order.  When every creation
\* failed the run returns the archive error and nothing is sent.
C38_ArchiveModeOrder ==
    /\ [](pc = "aremote" =>
            /\ ArchiveAt(archivePaths[1])
            /\ \A d \in 1..(archivePaths[1] - 1) : ~ArchiveAt(d))
    /\ [][/\ pc' = "acollect" => pc \in {"start", "acollect"}
          /\ (pc = "acollect" /\ pc' = "acollect") => idx' >= idx
          /\ (pc = "acollect" /\ pc' \in {"acreate", "preprune"}) =>
                /\ filesToArchive' = Collectable(result')
                /\ pc' = "acreate" <=> filesToArchive' # {}
                /\ ridx' = 1 /\ archives' = archives /\ remoteFiles' = remoteFiles
          /\ archives' # archives =>
                /\ pc = "acreate"
                /\ \A a \in archives' \ archives :
                      a.root = GetBackupPaths(cfg)[ridx] /\ a.files = filesToArchive
          /\ pc = "acreate" =>
                /\ filesToArchive' = filesToArchive /\ remoteFiles' = remoteFiles
                /\ (ridx < cfg.numDests /\ RunStep) => (pc' = "acreate" /\ ridx' = ridx + 1)
                /\ pc' = "aremote" => (Len(archivePaths') > 0 /\ ridx' = 1)
                /\ (ridx = cfg.numDests /\ Len(archivePaths') = 0 /\ pc' # pc) =>
                      (pc' = "done" /\ retErr' = "archive" /\ remoteFiles' = {})
          /\ Received # {} =>
                /\ pc = "aremote"
                /\ Received = {<<ArchivePath(archivePaths[1]), GetRemoteBackups(cfg)[ridx]>>}
          /\ (pc = "aremote" /\ RemoteAttempt /\ ridx < cfg.numRemotes) =>
                (pc' = "aremote" /\ ridx' = ridx + 1)]_vars

\* the archive of the first destination failed, the one of the second
\* destination was created and has been sent to the first remote destination
C38_Witness ==
    /\ pc = "aremote" /\ ridx = 2 /\ cfg.numDests = 2 /\ archivePaths = <<2>>
    /\ filesToArchive = Files /\ ~ArchiveAt(1) /\ ArchiveAt(2)
    /\ remoteFiles = {<<ArchivePath(2), GetRemoteBackups(cfg)[1]>>}

\* ------------------------------------------------------------------ the counts of an archive-mode run
\* a real archive-mode run is past its creation loop with an archive created
ArchiveCreatedInRun ==
    /\ cfg.mode = "archive" /\ ~cfg.dryRun
    /\ pc \in {"preprune", "prune", "done"}
    /\ Len(archivePaths) > 0

\* every collected file is counted as backed up and as succeeded
CollectedCounted ==
    /\ result.BackedUp = Cardinality(filesToArchive)
    /\ result.Succeeded = Cardinality(filesToArchive)

\* each destination whose archive creation failed has its one 'archive'
\* error, in destination order, and no other destination has one
FailedCreationsRecorded ==
    /\ Len(ArchiveErrors) = cfg.numDests - Len(archivePaths)
    /\ \A k \in 1..Len(ArchiveErrors) :
          \E d \in 1..cfg.numDests :
             /\ ArchiveErrors[k][1] = BackupRoot(d)
             /\ \A j \in 1..Len(archivePaths) : archivePaths[j] # d
    /\ \A j, k \in 1..Len(ArchiveErrors) : ArchiveErrors[j] = ArchiveErrors[k] => j = k
    /\ result.Failed >= Len(ArchiveErrors)

\* an archive-mode dry run counts nothing as backed up and writes nothing
DryRunCountsNothing ==
    (cfg.mode = "archive" /\ cfg.dryRun) =>
        (result.BackedUp = 0 /\ result.Succeeded = 0 /\ archives = {})

\* C39 as stated: in every real archive-mode run in which an archive was
\* created, BackedUp and Succeeded are the number of collected files and each
\* failed creation has its 'archive' error; a dry run counts nothing.
C39_ArchiveCounts ==
    /\ ArchiveCreatedInRun => (CollectedCounted /\ FailedCreationsRecorded)
    /\ DryRunCountsNothing

\* the run returned the cancellation error from the poll before a remote
\* copy, before the collected files were counted
CancelledAtRemoteLoop ==
    /\ pc = "done" /\ retErr = "canceled" /\ cfg.numRemotes > 0
    /\ pruneResult = NewPruneResult /\ source = Files
    /\ result.BackedUp = 0 /\ result.Succeeded = 0

\* C39 amended: the counts are set when runArchiveBackup returns nil; a run
\* cancelled at a poll of the remote loop returns with an archive created
\* and BackedUp and Succeeded still 0.
C39_ArchiveCountsUnlessCancelled ==
    /\ ArchiveCreatedInRun =>
          /\ FailedCreationsRecorded
          /\ CollectedCounted \/ CancelledAtRemoteLoop
    /\ DryRunCountsNothing

\* of two destinations one archive creation failed and one succeeded: the
\* run ended with both files counted and one 'archive' error
C39_Witness ==
    /\ ArchiveCreatedInRun /\ pc = "done" /\ retErr = "nil" /\ cfg.numDests = 2
    /\ Len(archivePaths) = 1 /\ Len(ArchiveErrors) = 1 /\ result.Failed = 1
    /\ filesToArchive = Files /\ result.BackedUp = MaxFiles /\ result.Succeeded = MaxFiles

\* ------------------------------------------------------------------ successes, deletions and the failure rate
\* the errors of the Result that were recorded before the prune phase
BackupPhaseErrors == SubSeq(result.Errors, 1, Len(result.Errors) - Len(pruneResult.Errors))

====
